---- MODULE Spec2Model ----
(***************************************************************************)
(* State-machine model of the campus dashboard's mentor change request     *)
(* lifecycle (MentorshipService.requestMentorChange, approveMentorRequest, *)
(* rejectMentorRequest) over the document store.                           *)
(*                                                                         *)
(* Documents are functions from field names to string values, so that the  *)
(* presence or absence of a key is part of the state.  Every service call  *)
(* is a sequence of awaited store round trips; calls of different callers  *)
(* interleave between round trips (the store is multi-writer).             *)
(***************************************************************************)
EXTENDS Integers, Sequences, FiniteSets, TLC

(***************************************************************************)
(* Values                                                                  *)
(***************************************************************************)
\* JavaScript's absence markers and the explicit empty string.
Undefined == "<undefined>"
Null == "<null>"
Empty == ""

\* JavaScript truthiness of a string-or-absent value: if (v) { ... }
Truthy(v) == v \notin {Undefined, Null, Empty}

\* A document with no fields.
EmptyDoc == [k \in {} |-> Empty]

\* Property read: an absent key reads as undefined.
Get(doc, k) == IF k \in DOMAIN doc THEN doc[k] ELSE Undefined

\* updateDoc semantics: the fields of the update replace or extend the document.
Merge(doc, update) == update @@ doc

\* The store fails a whole write when a field value is undefined.
StoreAccepts(payload) == \A k \in DOMAIN payload : payload[k] # Undefined

\* new Date(): a timestamp value (never an absence marker).
NowDate == "<date>"

(***************************************************************************)
(* Bounds and input sets                                                   *)
(***************************************************************************)
\* Number of service calls started in one behaviour.
MaxCalls == 2

Students == {"s1", "s2"}
Mentors == {"m1", "m2"}
Admins == {"a1", "a2"}
UserIds == Students \cup Mentors
\* An identifier that references no user document.
Ghost == "ghost"
\* Concurrent callers (browser sessions of students and admins).
Procs == {"p1", "p2"}
\* The admin signed in to each session: the adminId its review calls pass.
AdminOf(p) == IF p = "p1" THEN "a1" ELSE "a2"

\* Optional arguments as callers supply them: (currentMentorId, reason).
OptionalInputs ==
  {<<Undefined, Undefined>>, <<"m1", "why">>, <<Empty, Empty>>}
\* Arguments of requestMentorChange: well-formed calls with every optional
\* combination, and calls with an empty or dangling required identifier.
CreateInputs ==
  {<<s, m, o[1], o[2]>> : s \in Students, m \in Mentors, o \in OptionalInputs}
    \cup {<<Empty, "m1", Undefined, "why">>, <<Ghost, "m1", Undefined, Undefined>>,
          <<"s1", Empty, "m1", Undefined>>, <<"s1", Ghost, Undefined, Undefined>>,
          <<Empty, Empty, Undefined, Undefined>>}
NotesInputs == {Undefined, Empty, "note"}

\* The store at the start: student s1 has mentor m1 and one outstanding request
\* for m2 (as requestMentorChange leaves it); student s2 has no mentor.
InitUsers ==
  [u \in UserIds |->
     IF u = "s1"
       THEN [name |-> "n_" \o u, email |-> "e_" \o u, mentor_id |-> "m1",
             pending_mentor_id |-> "m2"]
       ELSE [name |-> "n_" \o u, email |-> "e_" \o u]]

InitRequests ==
  << [student_id |-> "s1", student_name |-> "n_s1", student_email |-> "e_s1",
      requested_mentor_id |-> "m2", requested_mentor_name |-> "n_m2",
      current_mentor_id |-> "m1", current_mentor_name |-> "n_m1",
      status |-> "pending", created_at |-> "<date>"] >>

VARIABLES
  requests,  \* mentor_change_requests: sequence of documents, id = index
  users,     \* users collection: id -> document
  calls,     \* per caller: the service call in flight and its bookkeeping
  started,   \* number of service calls started so far
  built,     \* payload construction on its own: the arguments and the payload
  successMessage,  \* approval view: green banner text ('' = hidden)
  errorMessage,    \* approval view: red banner text ('' = hidden)
  processing,      \* approval view: id of the target shown as processing, or null
  successTimer,    \* time left on the success auto-clear timer, or NoTimer
  errorTimer,      \* time left on the error auto-clear timer, or NoTimer
  successAge,      \* seconds since the last setSuccessMessage(text) while shown
  errorAge,        \* seconds since the last setErrorMessage(text) while shown
  handlers,        \* approval view: the approve/review handler calls in flight
  selectedUser,    \* approval view: whether a student is selected (refresh runs)
  reporter,        \* attendance report: which script runs (goals or reflections)
  roster,          \* attendance report: users with role student, id -> stored name
  submissions,     \* attendance report: documents of the submissions collection
  clock,           \* attendance report: time of the run and zone of the machine
  env,             \* attendance report: process.env of the run
  run,             \* attendance report: main()'s position and locals
  bugReports,      \* bug reports: documents of the bug_reports collection
  modal,           \* bug reports: state of the BugFeatureModal instance
  panel,           \* bug reports: state of the BugReportAdminPanel instance
  countResult,     \* bug reports: what getUnreviewedCount returned last
  feedback,        \* smart feedback: the getSmartFeedback call
  features,        \* feature tracking: the service's feature list
  parsed           \* feature tracking: result of the last commit parse

lifecycleVars == <<requests, users, calls, started>>
viewVars == <<successMessage, errorMessage, processing, successTimer, errorTimer,
              successAge, errorAge,
              handlers, selectedUser>>
reportVars == <<reporter, roster, submissions, clock, env, run>>
bugVars == <<bugReports, modal, panel, countResult>>
featureVars == <<features, parsed>>
serviceVars == <<bugVars, feedback, featureVars>>
vars == <<requests, users, calls, started, built, successMessage, errorMessage,
          processing, successTimer, errorTimer, successAge, errorAge, handlers,
          selectedUser, reporter, roster, submissions, clock, env, run, bugReports,
          modal, panel, countResult, feedback, features, parsed>>

RequestIds == 1..Len(requests)

IdleCall ==
  [op |-> "none", pc |-> "idle", err |-> Empty,
   requestId |-> 0, adminId |-> Empty, adminNotes |-> Empty,
   studentId |-> Empty, requestedMentorId |-> Empty,
   currentMentorId |-> Empty, reason |-> Empty,
   request |-> EmptyDoc,       \* the request document as read by approve/reject
   requestData |-> EmptyDoc,   \* payload sent to the request document
   userData |-> EmptyDoc,      \* payload sent to the student document
   readStatus |-> Empty,       \* status the call read at its precondition check
   mentorBefore |-> Empty,     \* student's mentor_id when the call started
   requestWrites |-> 0, userWrites |-> 0]

\* Once the request payload has been handed to the store, the locals it was
\* built from are no longer read by the call.
Sent(c) ==
  [c EXCEPT !.currentMentorId = Empty, !.reason = Empty, !.adminNotes = Empty,
            !.requestData = EmptyDoc, !.request = EmptyDoc]

\* UserService.getUserById: the document, or null when there is none.
UserExists(id) == id \in DOMAIN users

(***************************************************************************)
(* requestMentorChange (createRequest)                                     *)
(***************************************************************************)
\* Validation of the two required identifiers.
ValidRequestIds(studentId, requestedMentorId) ==
  /\ Truthy(studentId) /\ UserExists(studentId)
  /\ Truthy(requestedMentorId) /\ UserExists(requestedMentorId)

\* currentMentor?.name : name of the fetched current mentor, if any.
CurrentMentorName(currentMentorId) ==
  IF Truthy(currentMentorId) /\ UserExists(currentMentorId)
    THEN Get(users[currentMentorId], "name")
    ELSE Undefined

\* Field added only when the condition holds.
With(doc, cond, k, v) == IF cond THEN (k :> v) @@ doc ELSE doc

\* Mutant: the optional fields are assigned unconditionally.
RequestDataAllFields(studentId, requestedMentorId, currentMentorId, reason) ==
  [student_id |-> studentId,
   student_name |-> Get(users[studentId], "name"),
   student_email |-> Get(users[studentId], "email"),
   requested_mentor_id |-> requestedMentorId,
   requested_mentor_name |-> Get(users[requestedMentorId], "name"),
   current_mentor_id |-> currentMentorId,
   current_mentor_name |-> CurrentMentorName(currentMentorId),
   reason |-> reason,
   status |-> "pending",
   created_at |-> NowDate]

\* Build request data, excluding undefined values.
RequestData(studentId, requestedMentorId, currentMentorId, reason) ==
  LET base == [student_id |-> studentId,
               student_name |-> Get(users[studentId], "name"),
               student_email |-> Get(users[studentId], "email"),
               requested_mentor_id |-> requestedMentorId,
               requested_mentor_name |-> Get(users[requestedMentorId], "name"),
               status |-> "pending",
               created_at |-> NowDate]
      d1 == With(base, Truthy(currentMentorId), "current_mentor_id", currentMentorId)
      d2 == With(d1, Truthy(CurrentMentorName(currentMentorId)),
                 "current_mentor_name", CurrentMentorName(currentMentorId))
  IN  With(d2, Truthy(reason), "reason", reason)

\* The student update of requestMentorChange.
PendingStudentUpdate(requestedMentorId) ==
  [pending_mentor_id |-> requestedMentorId]

\* Mutant: the validation failure returns without raising an error.
ValidationFailedSilently(c) == [c EXCEPT !.pc = "done"]

\* A failed validation raises ValidationError before any store access.
ValidationFailed(c) == [c EXCEPT !.pc = "failed", !.err = "ValidationError"]

\* Call entry: validate, fetch the referenced users, build the payload.
RequestMentorChange(p, studentId, requestedMentorId, currentMentorId, reason) ==
  /\ calls[p].pc = "idle"
  /\ started < MaxCalls
  /\ started' = started + 1
  /\ LET c == [IdleCall EXCEPT !.op = "create",
                               !.studentId = studentId,
                               !.requestedMentorId = requestedMentorId,
                               !.currentMentorId = currentMentorId,
                               !.reason = reason]
     IN  IF ValidRequestIds(studentId, requestedMentorId)
           THEN calls' = [calls EXCEPT ![p] =
                  [c EXCEPT !.pc = "writeRequest",
                            !.mentorBefore = Get(users[studentId], "mentor_id"),
                            !.requestData = RequestData(studentId, requestedMentorId,
                                                        currentMentorId, reason)]]
           ELSE calls' = [calls EXCEPT ![p] = ValidationFailed(c)]
  /\ UNCHANGED <<requests, users, built, viewVars, reportVars, serviceVars>>

\* addDoc: the request document is created and its id returned.
CreateRequestDocument(p) ==
  /\ calls[p].op = "create" /\ calls[p].pc = "writeRequest"
  /\ StoreAccepts(calls[p].requestData)
  /\ requests' = Append(requests, calls[p].requestData)
  /\ calls' = [calls EXCEPT ![p] = Sent(
       [@ EXCEPT !.pc = "writeStudent",
                 !.requestId = Len(requests) + 1,
                 !.requestWrites = @ + 1,
                 !.userData = PendingStudentUpdate(calls[p].requestedMentorId)])]
  /\ UNCHANGED <<users, started, built, viewVars, reportVars, serviceVars>>

\* Mutant: the student update does not wait for the request document.
UpdateStudentPendingUnordered(p) ==
  /\ calls[p].op = "create" /\ calls[p].pc \in {"writeRequest", "writeStudent"}
  /\ calls[p].userWrites = 0
  /\ users' = [users EXCEPT ![calls[p].studentId] =
                 Merge(@, PendingStudentUpdate(calls[p].requestedMentorId))]
  /\ calls' = [calls EXCEPT
       ![p].pc = IF calls[p].pc = "writeStudent" THEN "done" ELSE @,
       ![p].userWrites = @ + 1]
  /\ UNCHANGED <<requests, started, built, viewVars, reportVars, serviceVars>>

\* updateUser(studentId, { pending_mentor_id }) completes the call.
UpdateStudentPending(p) ==
  /\ calls[p].op = "create" /\ calls[p].pc = "writeStudent"
  /\ StoreAccepts(calls[p].userData)
  /\ users' = [users EXCEPT ![calls[p].studentId] = Merge(@, calls[p].userData)]
  /\ calls' = [calls EXCEPT ![p].pc = "done", ![p].userWrites = @ + 1]
  /\ UNCHANGED <<requests, started, built, viewVars, reportVars, serviceVars>>

(***************************************************************************)
(* approveMentorRequest / rejectMentorRequest                              *)
(***************************************************************************)
\* Status found by the precondition read ("missing" when there is no document).
ReadStatus(requestId) ==
  IF requestId \in RequestIds THEN requests[requestId].status ELSE "missing"

\* Mutant: the precondition checks only that the request exists.
RequestExists(requestId) == ReadStatus(requestId) # "missing"

\* Precondition of approve and reject: the request exists and is pending.
RequestPending(requestId) == ReadStatus(requestId) = "pending"

\* updateData of approveMentorRequest: admin_notes only if provided.
ApproveUpdateData(adminId, adminNotes) ==
  With([status |-> "approved", reviewed_at |-> NowDate, reviewed_by |-> adminId],
       Truthy(adminNotes), "admin_notes", adminNotes)

\* updateData of rejectMentorRequest: the same construction, status rejected.
RejectUpdateData(adminId, adminNotes) ==
  With([status |-> "rejected", reviewed_at |-> NowDate, reviewed_by |-> adminId],
       Truthy(adminNotes), "admin_notes", adminNotes)

\* Approve: assign mentor and clear pending.
ApproveStudentUpdate(request) ==
  [mentor_id |-> request.requested_mentor_id, pending_mentor_id |-> Empty]

\* Reject: just clear pending.
RejectStudentUpdate(request) ==
  [pending_mentor_id |-> Empty]

\* Call entry shared by both reviews: read the request, check the precondition.
ReviewEntry(p, op, requestId, adminId, adminNotes, updateData) ==
  /\ calls[p].pc = "idle"
  /\ started < MaxCalls
  /\ started' = started + 1
  /\ LET c == [IdleCall EXCEPT !.op = op, !.requestId = requestId,
                               !.adminId = adminId, !.adminNotes = adminNotes,
                               !.readStatus = ReadStatus(requestId)]
     IN  IF RequestPending(requestId)
           THEN calls' = [calls EXCEPT ![p] =
                  [c EXCEPT !.pc = "writeRequest",
                            !.request = requests[requestId],
                            !.studentId = requests[requestId].student_id,
                            !.mentorBefore =
                               Get(users[requests[requestId].student_id], "mentor_id"),
                            !.requestData = updateData]]
           ELSE calls' = [calls EXCEPT ![p] =
                  [c EXCEPT !.pc = "failed", !.err = "InvalidStateError"]]
  /\ UNCHANGED <<requests, users, built, viewVars, reportVars, serviceVars>>

ApproveMentorRequest(p, requestId, adminId, adminNotes) ==
  ReviewEntry(p, "approve", requestId, adminId, adminNotes,
              ApproveUpdateData(adminId, adminNotes))

RejectMentorRequest(p, requestId, adminId, adminNotes) ==
  ReviewEntry(p, "reject", requestId, adminId, adminNotes,
              RejectUpdateData(adminId, adminNotes))

\* updateDoc(requestRef, updateData): the first write of approve and reject.
UpdateRequestDocument(p) ==
  /\ calls[p].op \in {"approve", "reject"} /\ calls[p].pc = "writeRequest"
  /\ StoreAccepts(calls[p].requestData)
  /\ requests' = [requests EXCEPT ![calls[p].requestId] = Merge(@, calls[p].requestData)]
  /\ calls' = [calls EXCEPT ![p] = Sent(
       [@ EXCEPT !.pc = "writeStudent",
                 !.requestWrites = @ + 1,
                 !.userData = IF calls[p].op = "approve"
                                THEN ApproveStudentUpdate(calls[p].request)
                                ELSE RejectStudentUpdate(calls[p].request)])]
  /\ UNCHANGED <<users, started, built, viewVars, reportVars, serviceVars>>

\* UserService.updateUser(request.student_id, ...): the second write.
UpdateStudentMentor(p) ==
  /\ calls[p].op \in {"approve", "reject"} /\ calls[p].pc = "writeStudent"
  /\ StoreAccepts(calls[p].userData)
  /\ users' = [users EXCEPT ![calls[p].studentId] = Merge(@, calls[p].userData)]
  /\ calls' = [calls EXCEPT ![p].pc = "done", ![p].userWrites = @ + 1]
  /\ UNCHANGED <<requests, started, built, viewVars, reportVars, serviceVars>>

(***************************************************************************)
(* Shared steps                                                            *)
(***************************************************************************)
\* A store round trip fails (network, permission, rejected payload): the error
\* is rethrown to the caller and the call performs nothing further.
StoreFailure(p) ==
  /\ calls[p].pc \in {"writeRequest", "writeStudent"}
  /\ calls' = [calls EXCEPT ![p].pc = "failed", ![p].err = "StoreError"]
  /\ UNCHANGED <<requests, users, started, built, viewVars, reportVars, serviceVars>>

\* The promise settles and the caller is free to start another call.
Return(p) ==
  /\ calls[p].pc \in {"done", "failed"}
  /\ calls' = [calls EXCEPT ![p] = IdleCall]
  /\ UNCHANGED <<requests, users, started, built, viewVars, reportVars, serviceVars>>

(***************************************************************************)
(* Payload construction on its own, over every combination of arguments    *)
(***************************************************************************)
AbsentValues == {Undefined, Null, Empty}
CurrentMentorValues == AbsentValues \cup {"m1", "m2", Ghost}
ReasonValues == AbsentValues \cup {"why", "moved campus"}
NotesValues == AbsentValues \cup {"note"}

NoBuild ==
  [kind |-> "none", studentId |-> Empty, requestedMentorId |-> Empty,
   currentMentorId |-> Empty, currentMentorName |-> Empty, reason |-> Empty,
   adminId |-> Empty, adminNotes |-> Empty,
   payload |-> EmptyDoc, accepted |-> FALSE]

\* requestMentorChange builds requestData and hands it to addDoc.
BuildRequestData(studentId, requestedMentorId, currentMentorId, reason) ==
  /\ built' = [NoBuild EXCEPT
       !.kind = "requestData", !.studentId = studentId,
       !.requestedMentorId = requestedMentorId,
       !.currentMentorId = currentMentorId,
       !.currentMentorName = CurrentMentorName(currentMentorId),
       !.reason = reason,
       !.payload = RequestData(studentId, requestedMentorId, currentMentorId, reason),
       !.accepted = StoreAccepts(
          RequestData(studentId, requestedMentorId, currentMentorId, reason))]
  /\ UNCHANGED <<lifecycleVars, viewVars, reportVars, serviceVars>>

\* approveMentorRequest / rejectMentorRequest build updateData for updateDoc.
BuildReviewData(op, adminId, adminNotes) ==
  /\ LET data == IF op = "approve" THEN ApproveUpdateData(adminId, adminNotes)
                                   ELSE RejectUpdateData(adminId, adminNotes)
     IN  built' = [NoBuild EXCEPT
           !.kind = op, !.adminId = adminId, !.adminNotes = adminNotes,
           !.payload = data, !.accepted = StoreAccepts(data)]
  /\ UNCHANGED <<lifecycleVars, viewVars, reportVars, serviceVars>>

\* The three student updates handed to UserService.updateUser.
BuildStudentUpdate(op, r) ==
  /\ LET data == CASE op = "approve" -> ApproveStudentUpdate(requests[r])
                   [] op = "reject" -> RejectStudentUpdate(requests[r])
                   [] OTHER -> PendingStudentUpdate(requests[r].requested_mentor_id)
     IN  built' = [NoBuild EXCEPT
           !.kind = "student", !.studentId = requests[r].student_id,
           !.requestedMentorId = requests[r].requested_mentor_id,
           !.payload = data, !.accepted = StoreAccepts(data)]
  /\ UNCHANGED <<lifecycleVars, viewVars, reportVars, serviceVars>>

(***************************************************************************)
(* Approval view: banners, processing state, auto-dismiss timers           *)
(* (MentorCampusTab: handleGoalApproval, handleReflectionApproval)         *)
(***************************************************************************)
\* setTimeout(() => setSuccessMessage(''), 3000), in seconds
SuccessDelay == 3
\* setTimeout(() => setErrorMessage(''), 5000), in seconds
ErrorDelay == 5

\* A timer is <<>> when none is pending, <<k>> with k seconds left otherwise.
NoTimer == <<>>
Armed(t) == t # NoTimer
Due(t) == Armed(t) /\ t[1] = 0

Goals == {"g1", "g2"}
Reflections == {"r1"}
Handlers == {"h1", "h2"}
ReviewStatuses == {"approved", "reviewed"}
\* error.message of a rejected store call ('' = an error without a message)
ErrorMessages == {Empty, "permission-denied"}

IdleHandler == [pc |-> "idle", kind |-> Empty, target |-> Empty, status |-> Empty]

\* `Goal ${status === 'approved' ? 'approved' : 'reviewed'} successfully!`
SuccessText(kind, status) ==
  (IF kind = "goal" THEN "Goal " ELSE "Reflection ")
    \o (IF status = "approved" THEN "approved" ELSE "reviewed") \o " successfully!"

\* error.message || 'Failed to approve goal. Please try again.'
ErrorText(kind, message) ==
  IF Truthy(message) THEN message
  ELSE IF kind = "goal" THEN "Failed to approve goal. Please try again."
  ELSE "Failed to approve reflection. Please try again."

\* Variant: the effect's cleanup cancels the timer and no new one is started.
TimerNotStarted(old, new, timer, delay) == NoTimer

\* The auto-clear effect runs when the message value changes: the pending
\* timer is cleared and, for a non-empty message, a new one is started.
TimerAfterSet(old, new, timer, delay) ==
  IF new = old THEN timer
  ELSE IF Truthy(new) THEN <<delay>> ELSE NoTimer

\* try { setProcessing(id); setErrorMessage(''); setSuccessMessage(''); await review...
HandlerEntry(h, kind, target, status) ==
  /\ handlers[h].pc = "idle"
  /\ processing # target            \* disabled={processing === goal.id}
  /\ processing' = target
  /\ errorMessage' = Empty
  /\ errorTimer' = TimerAfterSet(errorMessage, Empty, errorTimer, ErrorDelay)
  /\ successMessage' = Empty
  /\ successTimer' = TimerAfterSet(successMessage, Empty, successTimer, SuccessDelay)
  /\ successAge' = 0 /\ errorAge' = 0
  /\ handlers' = [handlers EXCEPT ![h] =
       [pc |-> "review", kind |-> kind, target |-> target, status |-> status]]
  /\ UNCHANGED <<selectedUser, lifecycleVars, built, reportVars, serviceVars>>

HandleGoalApproval(h, goalId, status) == HandlerEntry(h, "goal", goalId, status)

HandleReflectionApproval(h, reflectionId, status) ==
  HandlerEntry(h, "reflection", reflectionId, status)

\* Variant: the catch block without the finally block.
CaughtWithoutFinally(h, message) ==
  /\ errorMessage' = ErrorText(handlers[h].kind, message)
  /\ errorTimer' = TimerAfterSet(errorMessage, errorMessage', errorTimer, ErrorDelay)
  /\ errorAge' = 0
  /\ UNCHANGED processing
  /\ handlers' = [handlers EXCEPT ![h] = IdleHandler]

\* catch (error) { setErrorMessage(error.message || '...') } finally { setProcessing(null) }
Caught(h, message) ==
  /\ errorMessage' = ErrorText(handlers[h].kind, message)
  /\ errorTimer' = TimerAfterSet(errorMessage, errorMessage', errorTimer, ErrorDelay)
  /\ errorAge' = 0
  /\ processing' = Null
  /\ handlers' = [handlers EXCEPT ![h] = IdleHandler]

\* The review call resolves: setSuccessMessage(...), then the data refresh.
ReviewResolves(h) ==
  /\ handlers[h].pc = "review"
  /\ successMessage' = SuccessText(handlers[h].kind, handlers[h].status)
  /\ successTimer' = TimerAfterSet(successMessage, successMessage', successTimer,
                                    SuccessDelay)
  /\ successAge' = 0
  /\ IF selectedUser
       THEN /\ handlers' = [handlers EXCEPT ![h].pc = "refresh"]
            /\ UNCHANGED processing
       ELSE /\ handlers' = [handlers EXCEPT ![h] = IdleHandler]
            /\ processing' = Null
  /\ UNCHANGED <<errorMessage, errorTimer, errorAge, selectedUser, lifecycleVars,
                 built, reportVars, serviceVars>>

\* The review call rejects.
ReviewRejects(h, message) ==
  /\ handlers[h].pc = "review"
  /\ Caught(h, message)
  /\ UNCHANGED <<successMessage, successTimer, successAge, selectedUser,
                 lifecycleVars, built, reportVars, serviceVars>>

\* await selectUser(selectedUser) resolves; fetchCampusData(true); finally.
RefreshResolves(h) ==
  /\ handlers[h].pc = "refresh"
  /\ processing' = Null
  /\ handlers' = [handlers EXCEPT ![h] = IdleHandler]
  /\ UNCHANGED <<successMessage, successTimer, errorMessage, errorTimer,
                 successAge, errorAge, selectedUser, lifecycleVars, built, reportVars, serviceVars>>

\* await selectUser(selectedUser) rejects inside the same try block.
RefreshRejects(h, message) ==
  /\ handlers[h].pc = "refresh"
  /\ Caught(h, message)
  /\ UNCHANGED <<successMessage, successTimer, successAge, selectedUser,
                 lifecycleVars, built, reportVars, serviceVars>>

\* setTimeout callback of the success effect.
SuccessTimerFires ==
  /\ Due(successTimer)
  /\ successMessage' = Empty
  /\ successTimer' = NoTimer
  /\ successAge' = 0
  /\ UNCHANGED <<errorMessage, errorTimer, errorAge, processing, handlers, selectedUser,
                 lifecycleVars, built, reportVars, serviceVars>>

\* setTimeout callback of the error effect.
ErrorTimerFires ==
  /\ Due(errorTimer)
  /\ errorMessage' = Empty
  /\ errorTimer' = NoTimer
  /\ errorAge' = 0
  /\ UNCHANGED <<successMessage, successTimer, successAge, processing, handlers, selectedUser,
                 lifecycleVars, built, reportVars, serviceVars>>

\* One second passes; a due timer fires before time moves on.
TickTimer(t) == IF Armed(t) THEN <<t[1] - 1>> ELSE t

\* The age of a displayed message grows with time; a hidden one has none.
TickAge(message, age) == IF message # Empty THEN age + 1 ELSE 0

Tick ==
  /\ Armed(successTimer) \/ Armed(errorTimer)
  /\ ~Due(successTimer) /\ ~Due(errorTimer)
  /\ successTimer' = TickTimer(successTimer)
  /\ errorTimer' = TickTimer(errorTimer)
  /\ successAge' = TickAge(successMessage, successAge)
  /\ errorAge' = TickAge(errorMessage, errorAge)
  /\ UNCHANGED <<successMessage, errorMessage, processing, handlers, selectedUser,
                 lifecycleVars, built, reportVars, serviceVars>>

(***************************************************************************)
(* Daily attendance reporters                                              *)
(* (daily goal attendance report, scripts/daily-reflection-report.js)      *)
(***************************************************************************)
\* Largest number of documents in the submissions collection.
MaxSubmissions == 2
\* Length of the longest student name.
LongNameLength == 600

SecondsPerDay == 24 * 60 * 60
\* const istOffset = 5.5 * 60 * 60 * 1000, in seconds
IstOffset == 11 * 30 * 60
\* absentNames.length > 1000 ? absentNames.substring(0, 997) + '...' : absentNames
FieldLimit == 1000
FieldKept == 997

RECURSIVE Repeat(_, _)
Repeat(s, n) ==
  IF n = 0 THEN Empty
  ELSE IF n % 2 = 0 THEN LET half == Repeat(s, n \div 2) IN half \o half
  ELSE s \o Repeat(s, n - 1)

LongName == Repeat("z", LongNameLength)
\* Two of these names joined by ', ' fill the field exactly.
HalfFieldName == Repeat("y", (FieldLimit - 2) \div 2)

Reporters == {"goals", "reflections"}
ReportStudentIds == {"s1", "s2"}
\* Order in which the users query returns the student documents.
StudentOrder == <<"s1", "s2">>
\* The name field of a users document ('' = no name stored).
StoredNames == {"Asha", "Bala", Empty, HalfFieldName, LongName}
\* Order of Array.prototype.sort() without a comparator (UTF-16 code units).
NameOrder == <<"Asha", "Bala", "Unknown", HalfFieldName, LongName>>
Rosters == UNION {[S -> StoredNames] : S \in SUBSET ReportStudentIds}

\* Seconds since the epoch of h:m:s on calendar day `day` in UTC+5:30.
IstTime(day, h, m, sec) == day * SecondsPerDay + (h * 60 + m) * 60 + sec - IstOffset

\* The scheduled 9:20 IST run and a run at 2:00 IST.
RunTimes == {IstTime(1, 9, 20, 0), IstTime(1, 2, 0, 0)}
\* Zone of the machine the script runs on: UTC or UTC+5:30.
LocalOffsets == {0, IstOffset}
SubmissionTimes ==
  {IstTime(1, 1, 0, 0), IstTime(1, 12, 0, 0), IstTime(1, 23, 59, 59),
   IstTime(2, 3, 0, 0)}
\* Submission documents; student_id '' = a document without student_id.
SubmissionDocs ==
  [student_id : {"s1", "s2", "x1"}, created_at : SubmissionTimes]
    \cup {[student_id |-> Empty, created_at |-> IstTime(1, 12, 0, 0)]}
SubmissionSets == {D \in SUBSET SubmissionDocs : Cardinality(D) <= MaxSubmissions}

\* getTodayDateIST: the calendar day of now + istOffset, read with the UTC
\* getters.  The 'YYYY-MM-DD' string is represented by its day number.
GetTodayDateIST(now) == (now + IstOffset) \div SecondsPerDay

\* new Date('YYYY-MM-DD'): a date-only string is parsed as UTC midnight.
DateOnlyToTime(date) == date * SecondsPerDay

\* new Date('YYYY-MM-DD' + 'T23:59:59'): a date-time string without a zone is
\* parsed as local time.
EndOfDayToTime(date, localOffset) ==
  date * SecondsPerDay + (SecondsPerDay - 1) - localOffset

\* .where('created_at', '>=', start).where('created_at', '<', end)
CreatedToday(docs, todayDate, localOffset) ==
  {d \in docs : /\ d.created_at >= DateOnlyToTime(todayDate)
                /\ d.created_at < EndOfDayToTime(todayDate, localOffset)}

\* forEach(doc => { if (data.student_id) set.add(data.student_id) })
StudentIdsOf(docs) == {d.student_id : d \in {e \in docs : Truthy(e.student_id)}}

GetStudentsWithGoalsToday(docs, todayDate, localOffset) ==
  StudentIdsOf(CreatedToday(docs, todayDate, localOffset))

GetStudentsWithReflectionsToday(docs, todayDate, localOffset) ==
  StudentIdsOf(CreatedToday(docs, todayDate, localOffset))

\* getAllStudents: { id: doc.id, name: data.name || 'Unknown' }
GetAllStudents(r) ==
  LET ids == SelectSeq(StudentOrder, LAMBDA id : id \in DOMAIN r)
  IN  [i \in 1..Len(ids) |->
         [id |-> ids[i],
          name |-> IF Truthy(r[ids[i]]) THEN r[ids[i]] ELSE "Unknown"]]

NamesOf(students) == [i \in 1..Len(students) |-> students[i].name]

Rank(name) == CHOOSE i \in 1..Len(NameOrder) : NameOrder[i] = name

RECURSIVE Insert(_, _)
Insert(name, sorted) ==
  IF sorted = <<>> THEN <<name>>
  ELSE IF Rank(name) < Rank(Head(sorted)) THEN <<name>> \o sorted
  ELSE <<Head(sorted)>> \o Insert(name, Tail(sorted))

\* Variant: the names in the order of the query result.
Unsorted(names) == names

\* .sort()
RECURSIVE Sort(_)
Sort(names) == IF names = <<>> THEN <<>> ELSE Insert(Head(names), Sort(Tail(names)))

\* .join(', ')
RECURSIVE Join(_)
Join(names) ==
  IF names = <<>> THEN Empty
  ELSE IF Len(names) = 1 THEN names[1]
  ELSE names[1] \o ", " \o Join(Tail(names))

\* Variant: the list is posted as it is.
AbsentFieldValueUncut(absentNames) == absentNames

\* absentNames.length > 1000 ? absentNames.substring(0, 997) + '...' : absentNames
AbsentFieldValue(absentNames) ==
  IF Len(absentNames) > FieldLimit
    THEN SubSeq(absentNames, 1, FieldKept) \o "..."
    ELSE absentNames

\* ((presentCount / totalCount) * 100).toFixed(1), in tenths of a percent
AttendancePercentage(presentCount, totalCount) ==
  (2 * presentCount * 1000 + totalCount) \div (2 * totalCount)

\* Variant: the name list field is pushed whatever the count.
GoalExtraFieldAlwaysList(absentCount, absentNames) ==
  [name |-> "Absent Students", value |-> AbsentFieldValue(absentNames)]

\* The extra field of the goal report.
GoalExtraField(absentCount, absentNames) ==
  IF absentCount > 0
    THEN [name |-> "Absent Students", value |-> AbsentFieldValue(absentNames)]
    ELSE [name |-> "Perfect Attendance!",
          value |-> "All students have submitted their goals today!"]

\* The motivational field of the reflection report.
ReflectionExtraField(presentCount, totalCount) ==
  LET tenths == AttendancePercentage(presentCount, totalCount)
  IN  IF presentCount = totalCount THEN [name |-> "Perfect Day!", value |-> Empty]
      ELSE IF tenths >= 900 THEN [name |-> "Excellent Work!", value |-> Empty]
      ELSE IF tenths >= 750 THEN [name |-> "Good Progress", value |-> Empty]
      ELSE IF tenths >= 500 THEN [name |-> "Reminder", value |-> Empty]
      ELSE [name |-> "Low Completion", value |-> Empty]

\* fields: [Present, Absent, Attendance Rate / Completion Rate]
BaseFields(presentCount, absentCount, totalCount) ==
  <<[name |-> "Present", value |-> presentCount],
    [name |-> "Absent", value |-> absentCount],
    [name |-> "Rate", value |-> AttendancePercentage(presentCount, totalCount)]>>

\* process.exit has not been called / was called with the code.
NoExit == <<>>
Exit(code) == <<code>>

\* Outcome of one webhook request: a response with its status code, or an
\* 'error' event of the request (statusCode 0).
Responses ==
  {[kind |-> "end", statusCode |-> 204], [kind |-> "end", statusCode |-> 200],
   [kind |-> "end", statusCode |-> 500], [kind |-> "error", statusCode |-> 0]}

\* Variant: every answered request counts as delivered.
ResolvesWhenAnswered(response) == response.kind = "end"

\* sendDiscordNotification resolves on 204 or 200 and rejects otherwise.
Resolves(response) ==
  response.kind = "end" /\ (response.statusCode = 204 \/ response.statusCode = 200)

IdleRun ==
  [pc |-> "startup", steps |-> <<>>, reads |-> 0, todayDate |-> 0, allStudents |-> <<>>,
   matched |-> {}, studentIds |-> {}, presentStudents |-> <<>>,
   absentStudents |-> <<>>, presentCount |-> 0, absentCount |-> 0,
   totalCount |-> 0, absentNames |-> Empty, fields |-> <<>>,
   extraField |-> [name |-> Empty, value |-> Empty],
   posts |-> <<>>, error |-> Empty, exitCode |-> NoExit]

Step(r, name) == [r EXCEPT !.steps = Append(r.steps, name)]

\* Values of an environment variable: unset, empty, or a text.
CredentialValues == {Undefined, Empty, "not json", "{service account}"}
WebhookValues == {Undefined, Empty, "https://discord.test/api/webhooks/1"}
Environments ==
  [FIREBASE_SERVICE_ACCOUNT : CredentialValues, DISCORD_WEBHOOK_URL : WebhookValues]
GoodEnvironment ==
  [FIREBASE_SERVICE_ACCOUNT |-> "{service account}",
   DISCORD_WEBHOOK_URL |-> "https://discord.test/api/webhooks/1"]

\* JSON.parse(process.env.FIREBASE_SERVICE_ACCOUNT) returns without throwing.
Parses(text) == text = "{service account}"

\* Variant: only the credential is validated.
CredentialUsable(e) ==
  Truthy(e.FIREBASE_SERVICE_ACCOUNT) /\ Parses(e.FIREBASE_SERVICE_ACCOUNT)

\* The three startup checks: both variables set, the credential parses.
EnvironmentUsable(e) ==
  /\ Truthy(e.FIREBASE_SERVICE_ACCOUNT)
  /\ Truthy(e.DISCORD_WEBHOOK_URL)
  /\ Parses(e.FIREBASE_SERVICE_ACCOUNT)

\* Module top level: validate the environment, process.exit(1) on failure,
\* otherwise initialize the store client and call main().
ValidateEnvironment ==
  /\ run.pc = "startup"
  /\ run' = IF EnvironmentUsable(env)
              THEN [run EXCEPT !.pc = "start"]
              ELSE [run EXCEPT !.pc = "exited", !.exitCode = Exit(1)]
  /\ UNCHANGED <<reporter, roster, submissions, clock, env, lifecycleVars, built,
                 viewVars, serviceVars>>

\* main: const todayDate = getTodayDateIST()
MainStarts ==
  /\ run.pc = "start"
  /\ run' = [run EXCEPT !.pc = "fetchStudents",
                        !.todayDate = GetTodayDateIST(clock.now)]
  /\ UNCHANGED <<reporter, roster, submissions, clock, env, lifecycleVars, built,
                 viewVars, serviceVars>>

\* await getAllStudents() resolves; if (allStudents.length === 0) process.exit(0)
StudentsFetched ==
  /\ run.pc = "fetchStudents"
  /\ LET all == GetAllStudents(roster)
         r == [Step(run, "fetch-students") EXCEPT
                 !.allStudents = all, !.reads = run.reads + 1]
     IN  run' = IF Len(all) = 0
                  THEN [r EXCEPT !.pc = "exited", !.exitCode = Exit(0)]
                  ELSE [r EXCEPT !.pc = "fetchSubmissions"]
  /\ UNCHANGED <<reporter, roster, submissions, clock, env, lifecycleVars, built,
                 viewVars, serviceVars>>

\* await getStudentsWithGoalsToday(todayDate) / ...ReflectionsToday resolves
SubmissionsFetched ==
  /\ run.pc = "fetchSubmissions"
  /\ run' = [Step(run, "fetch-submissions") EXCEPT
       !.pc = "compute",
       !.reads = run.reads + 1,
       !.matched = CreatedToday(submissions, run.todayDate, clock.localOffset),
       !.studentIds =
          IF reporter = "goals"
            THEN GetStudentsWithGoalsToday(submissions, run.todayDate,
                                           clock.localOffset)
            ELSE GetStudentsWithReflectionsToday(submissions, run.todayDate,
                                                 clock.localOffset)]
  /\ UNCHANGED <<reporter, roster, submissions, clock, env, lifecycleVars, built,
                 viewVars, serviceVars>>

\* A store query rejects: control passes to main's catch block.
FetchFails ==
  /\ run.pc \in {"fetchStudents", "fetchSubmissions"}
  /\ run' = [run EXCEPT !.pc = "errorPost", !.error = "store unavailable",
                        !.reads = run.reads + 1]
  /\ UNCHANGED <<reporter, roster, submissions, clock, env, lifecycleVars, built,
                 viewVars, serviceVars>>

\* Goal report: split allStudents into present and absent, count, list names.
ComputeGoalCounts ==
  /\ run.pc = "compute" /\ reporter = "goals"
  /\ LET present == SelectSeq(run.allStudents, LAMBDA st : st.id \in run.studentIds)
         absent == SelectSeq(run.allStudents, LAMBDA st : st.id \notin run.studentIds)
     IN  run' = [Step(run, "compute-counts") EXCEPT
           !.pc = "format",
           !.presentStudents = present,
           !.absentStudents = absent,
           !.presentCount = Len(present),
           !.absentCount = Len(absent),
           !.totalCount = Len(run.allStudents),
           !.absentNames = Join(Sort(NamesOf(absent)))]
  /\ UNCHANGED <<reporter, roster, submissions, clock, env, lifecycleVars, built,
                 viewVars, serviceVars>>

\* Reflection report: presentCount = set size, absentCount = total - present.
ComputeReflectionCounts ==
  /\ run.pc = "compute" /\ reporter = "reflections"
  /\ run' = [Step(run, "compute-counts") EXCEPT
       !.pc = "format",
       !.presentCount = Cardinality(run.studentIds),
       !.totalCount = Len(run.allStudents),
       !.absentCount = Len(run.allStudents) - Cardinality(run.studentIds)]
  /\ UNCHANGED <<reporter, roster, submissions, clock, env, lifecycleVars, built,
                 viewVars, serviceVars>>

\* The embed with its extra field.
FormatMessage ==
  /\ run.pc = "format"
  /\ LET extra == IF reporter = "goals"
                    THEN GoalExtraField(run.absentCount, run.absentNames)
                    ELSE ReflectionExtraField(run.presentCount, run.totalCount)
     IN
     run' = [Step(run, "format-message") EXCEPT
       !.pc = "post",
       !.extraField = extra,
       !.fields = Append(BaseFields(run.presentCount, run.absentCount,
                                    run.totalCount), extra)]
  /\ UNCHANGED <<reporter, roster, submissions, clock, env, lifecycleVars, built,
                 viewVars, serviceVars>>

\* await sendDiscordNotification({ embeds: [embed] }); process.exit(0)
ReportPosted(response) ==
  /\ run.pc = "post"
  /\ LET r == [Step(run, "post-webhook") EXCEPT
                 !.posts = Append(run.posts, [kind |-> "report", response |-> response])]
     IN  run' = IF Resolves(response)
                  THEN [r EXCEPT !.pc = "exited", !.exitCode = Exit(0)]
                  ELSE [r EXCEPT !.pc = "errorPost", !.error = "Discord API error"]
  /\ UNCHANGED <<reporter, roster, submissions, clock, env, lifecycleVars, built,
                 viewVars, serviceVars>>

\* catch: try { await sendDiscordNotification(failure embed) } catch { log };
\* process.exit(1)
ErrorPosted(response) ==
  /\ run.pc = "errorPost"
  /\ run' = [run EXCEPT
       !.pc = "exited",
       !.posts = Append(run.posts, [kind |-> "error", response |-> response]),
       !.exitCode = Exit(1)]
  /\ UNCHANGED <<reporter, roster, submissions, clock, env, lifecycleVars, built,
                 viewVars, serviceVars>>

(***************************************************************************)
(* Bug reports                                                             *)
(* (bugReportService.ts, BugFeatureModal.tsx, BugReportAdminPanel)         *)
(***************************************************************************)
\* Largest number of documents in the bug_reports collection.
MaxReports == 2

\* setTimeout(() => onClose(), 2000), in seconds.
CloseDelay == 2

\* v || d
OrElse(v, d) == IF Truthy(v) THEN v ELSE d

\* Arguments of submitReport: description, consoleLogs, userId, userName,
\* userEmail (the last three are undefined when nobody is signed in).
SubmitInputs ==
  { <<"crash on save", "TypeError: x is undefined", "u1", "Asha", "asha@example.org">>,
    <<"crash on save", Empty, Undefined, Undefined, Undefined>> }

\* The document submitReport adds; submittedAt is the position in the store.
ReportDocument(description, consoleLogs, userId, userName, userEmail, submittedAt) ==
  [description |-> description,
   consoleLogs |-> OrElse(consoleLogs, Empty),
   userId      |-> OrElse(userId, "anonymous"),
   userName    |-> OrElse(userName, "Anonymous User"),
   userEmail   |-> OrElse(userEmail, Empty),
   reviewed    |-> FALSE,
   submittedAt |-> submittedAt]

AddReport(store, input) ==
  Append(store, ReportDocument(input[1], input[2], input[3], input[4], input[5],
                               Len(store) + 1))

\* getAllReports: every document with its id, newest first.
GetAllReports(store) ==
  [i \in 1..Len(store) |->
     LET id == Len(store) + 1 - i
     IN  [id          |-> id,
          description |-> store[id].description,
          consoleLogs |-> store[id].consoleLogs,
          userId      |-> store[id].userId,
          userName    |-> store[id].userName,
          userEmail   |-> store[id].userEmail,
          reviewed    |-> store[id].reviewed,
          submittedAt |-> store[id].submittedAt]]

\* Variant: the length of the list, without the filter.
CountAll(reports) == Len(reports)

\* reports.filter(r => !r.reviewed).length
CountUnreviewed(reports) ==
  Cardinality({i \in 1..Len(reports) : ~reports[i].reviewed})

NoCount == <<>>

\* getUnreviewedCount: the count of the fetched list, 0 when the fetch throws.
GetUnreviewedCount(fetchFails) ==
  /\ countResult = NoCount
  /\ countResult' =
       <<[value  |-> IF fetchFails THEN 0 ELSE CountUnreviewed(GetAllReports(bugReports)),
          failed |-> fetchFails]>>
  /\ UNCHANGED <<bugReports, modal, panel, feedback, featureVars, lifecycleVars, built,
                 viewVars, reportVars>>

\* The caller has the count; the next call can start.
CountSettled ==
  /\ countResult # NoCount
  /\ countResult' = NoCount
  /\ UNCHANGED <<bugReports, modal, panel, feedback, featureVars, lifecycleVars, built,
                 viewVars, reportVars>>

\* submitReport called by another session: one addDoc.
SubmitReport(input) ==
  /\ Len(bugReports) < MaxReports
  /\ bugReports' = AddReport(bugReports, input)
  /\ UNCHANGED <<modal, panel, countResult, feedback, featureVars, lifecycleVars, built,
                 viewVars, reportVars>>

\* --- BugFeatureModal ---
OpenModal ==
  [open |-> TRUE, pc |-> "idle", input |-> <<>>, submitted |-> FALSE,
   submitting |-> FALSE, error |-> Empty, closeTimer |-> NoTimer, thanksAge |-> 0,
   timerCloses |-> 0, userCloses |-> 0]

SubmitErrorText == "Failed to submit report. Please try again."

\* handleSubmit up to the await: setSubmitting(true); setError('').
HandleSubmit(input) ==
  /\ modal.open /\ ~modal.submitted    \* the form is rendered
  /\ ~modal.submitting                 \* disabled={submitting}
  /\ modal' = [modal EXCEPT !.pc = "submitting", !.input = input,
                            !.submitting = TRUE, !.error = Empty]
  /\ UNCHANGED <<bugReports, panel, countResult, feedback, featureVars, lifecycleVars,
                 built, viewVars, reportVars>>

\* Variant: the close is scheduled on both paths.
ScheduledCloseAlways(succeeded) == <<CloseDelay>>

\* The timer handleSubmit leaves behind: started after a successful submit only.
ScheduledClose(succeeded) == IF succeeded THEN <<CloseDelay>> ELSE NoTimer

\* submitReport resolved: setSubmitted(true); setTimeout(...); finally.
SubmitReportResolves ==
  /\ modal.pc = "submitting"
  /\ Len(bugReports) < MaxReports
  /\ bugReports' = AddReport(bugReports, modal.input)
  /\ modal' = [modal EXCEPT !.pc = "idle", !.input = <<>>, !.submitted = TRUE,
                            !.closeTimer = ScheduledClose(TRUE), !.thanksAge = 0,
                            !.submitting = FALSE]
  /\ UNCHANGED <<panel, countResult, feedback, featureVars, lifecycleVars, built,
                 viewVars, reportVars>>

\* submitReport threw: setError(...); finally.
SubmitReportRejects ==
  /\ modal.pc = "submitting"
  /\ modal' = [modal EXCEPT !.pc = "idle", !.input = <<>>, !.error = SubmitErrorText,
                            !.closeTimer = ScheduledClose(FALSE),
                            !.submitting = FALSE]
  /\ UNCHANGED <<bugReports, panel, countResult, feedback, featureVars, lifecycleVars,
                 built, viewVars, reportVars>>

\* One second passes while the close timer is pending.
ModalTick ==
  /\ Armed(modal.closeTimer) /\ ~Due(modal.closeTimer)
  /\ modal' = [modal EXCEPT !.closeTimer = TickTimer(@), !.thanksAge = @ + 1]
  /\ UNCHANGED <<bugReports, panel, countResult, feedback, featureVars, lifecycleVars,
                 built, viewVars, reportVars>>

\* The timer callback: onClose().
CloseTimerFires ==
  /\ Due(modal.closeTimer)
  /\ modal' = [modal EXCEPT !.closeTimer = NoTimer, !.open = FALSE,
                            !.timerCloses = @ + 1]
  /\ UNCHANGED <<bugReports, panel, countResult, feedback, featureVars, lifecycleVars,
                 built, viewVars, reportVars>>

\* Escape, the backdrop, the X button or Cancel: onClose().
UserClosesModal ==
  /\ modal.open
  /\ modal' = [modal EXCEPT !.open = FALSE, !.userCloses = @ + 1]
  /\ UNCHANGED <<bugReports, panel, countResult, feedback, featureVars, lifecycleVars,
                 built, viewVars, reportVars>>

\* --- BugReportAdminPanel ---
PanelHandlers == {"k1", "k2"}

IdleReview == [pc |-> "idle", id |-> 0, reports |-> <<>>]

MountedPanel ==
  [reports |-> <<>>, loading |-> TRUE, error |-> Empty,
   calls |-> [h \in PanelHandlers |-> IdleReview]]

\* loadReports after getAllReports resolved.
LoadReportsResolves ==
  /\ panel.loading
  /\ panel' = [panel EXCEPT !.reports = GetAllReports(bugReports), !.loading = FALSE]
  /\ UNCHANGED <<bugReports, modal, countResult, feedback, featureVars, lifecycleVars,
                 built, viewVars, reportVars>>

\* loadReports after getAllReports threw.
LoadReportsRejects ==
  /\ panel.loading
  /\ panel' = [panel EXCEPT !.error = "Failed to load reports. Please try again.",
                            !.loading = FALSE]
  /\ UNCHANGED <<bugReports, modal, countResult, feedback, featureVars, lifecycleVars,
                 built, viewVars, reportVars>>

\* handleReviewed(id) up to the await; the callback keeps the reports value
\* of the render it was created in.
HandleReviewed(h, id) ==
  /\ ~panel.loading
  /\ panel.calls[h].pc = "idle"
  /\ \E i \in 1..Len(panel.reports) :
       panel.reports[i].id = id /\ ~panel.reports[i].reviewed
  /\ panel' = [panel EXCEPT !.calls[h] =
       [pc |-> "marking", id |-> id, reports |-> panel.reports]]
  /\ UNCHANGED <<bugReports, modal, countResult, feedback, featureVars, lifecycleVars,
                 built, viewVars, reportVars>>

\* reports.map(r => r.id === id ? {...r, reviewed: true} : r)
MarkedReviewed(reports, id) ==
  [i \in 1..Len(reports) |->
     IF reports[i].id = id THEN [reports[i] EXCEPT !.reviewed = TRUE] ELSE reports[i]]

\* markAsReviewed resolved: the store is updated, then setReports(...).
MarkAsReviewedResolves(h) ==
  /\ panel.calls[h].pc = "marking"
  /\ bugReports' = [bugReports EXCEPT ![panel.calls[h].id].reviewed = TRUE]
  /\ panel' = [panel EXCEPT
       !.reports = MarkedReviewed(panel.calls[h].reports, panel.calls[h].id),
       !.calls[h] = IdleReview]
  /\ UNCHANGED <<modal, countResult, feedback, featureVars, lifecycleVars, built,
                 viewVars, reportVars>>

\* markAsReviewed threw: setError(...).
MarkAsReviewedRejects(h) ==
  /\ panel.calls[h].pc = "marking"
  /\ panel' = [panel EXCEPT !.error = "Failed to update report status.",
                            !.calls[h] = IdleReview]
  /\ UNCHANGED <<bugReports, modal, countResult, feedback, featureVars, lifecycleVars,
                 built, viewVars, reportVars>>

(***************************************************************************)
(* Smart feedback (geminiClientApi.ts)                                     *)
(***************************************************************************)
\* apiKey.length < 20
MinKeyLength == 20

UpperLetters == "ABCDEFGHIJKLMNOPQRSTUVWXYZ"
LowerLetters == "abcdefghijklmnopqrstuvwxyz"
Digits == "0123456789"

CharAt(s, i) == SubSeq(s, i, i)

\* s.includes(part)
Includes(s, part) ==
  \E i \in 1..(Len(s) + 1 - Len(part)) : SubSeq(s, i, i + Len(part) - 1) = part

\* s.startsWith(part)
StartsWith(s, part) == Len(s) >= Len(part) /\ SubSeq(s, 1, Len(part)) = part

\* The lower-case letter of every upper-case letter.
LowerOf ==
  LET letter(i) == CharAt(UpperLetters, i)
      index(c) == CHOOSE i \in 1..Len(UpperLetters) : letter(i) = c
  IN  [c \in {letter(i) : i \in 1..Len(UpperLetters)} |-> CharAt(LowerLetters, index(c))]

LowerChar(c) == IF c \in DOMAIN LowerOf THEN LowerOf[c] ELSE c

RECURSIVE ToLowerCase(_)
\* s.toLowerCase(), one half of the string after the other
ToLowerCase(s) ==
  IF Len(s) = 0 THEN Empty
  ELSE IF Len(s) = 1 THEN LowerChar(s)
  ELSE LET half == Len(s) \div 2
       IN  ToLowerCase(SubSeq(s, 1, half)) \o ToLowerCase(SubSeq(s, half + 1, Len(s)))

\* /\d+/.test(s)
HasDigit(s) == \E i \in 1..Len(s) : Includes(Digits, CharAt(s, i))

WhiteSpace == {" ", "\n", "\t"}

RECURSIVE TrimStart(_)
TrimStart(s) ==
  IF s # Empty /\ CharAt(s, 1) \in WhiteSpace THEN TrimStart(SubSeq(s, 2, Len(s))) ELSE s

RECURSIVE TrimEnd(_)
TrimEnd(s) ==
  IF s # Empty /\ CharAt(s, Len(s)) \in WhiteSpace
  THEN TrimEnd(SubSeq(s, 1, Len(s) - 1)) ELSE s

\* s.trim()
Trim(s) == TrimEnd(TrimStart(s))

RECURSIVE JoinWith(_, _)
\* parts.join(separator)
JoinWith(parts, separator) ==
  IF parts = <<>> THEN Empty
  ELSE IF Len(parts) = 1 THEN parts[1]
  ELSE parts[1] \o separator \o JoinWith(Tail(parts), separator)

\* generateFallbackFeedback(goalText)
GenerateFallbackFeedback(goalText) ==
  LET goal == ToLowerCase(goalText)
      action ==
        IF /\ ~Includes(goal, "complete") /\ ~Includes(goal, "finish")
           /\ ~Includes(goal, "build") /\ ~Includes(goal, "create")
        THEN <<"Consider making your goal more action-oriented with specific outcomes.">>
        ELSE <<>>
      measure ==
        IF /\ ~Includes(goal, "hour") /\ ~Includes(goal, "minute")
           /\ ~Includes(goal, "page") /\ ~HasDigit(goal)
        THEN <<"Add measurable criteria to track your progress.">>
        ELSE <<>>
      questions ==
        <<"* What specific steps will you take to achieve this?",
          "* How will you know when you've completed it?",
          "* What resources or help do you need?">>
  IN  JoinWith(action \o measure \o questions, "\n\n")

\* const models = [...]
Models == <<"gemini-2.5-flash", "gemini-2.0-flash", "gemini-pro-latest",
            "gemini-flash-latest">>

GoalTexts == {Undefined, Empty, "Read a book", "Finish the login page",
              "Study for 1 HOUR"}

ApiKeys == {Undefined, Empty, "AIzaShort", "sk-live-0123456789abcdefgh",
            "AIzaSyA0123456789abcdefgh"}

\* What one axios.post can end in: a response whose first candidate carries
\* this text (undefined when there is none), or an error with this message.
ModelOutcomes ==
  {[error |-> Empty, text |-> t] : t \in {Undefined, Empty, "   ", " Good start.\n"}}
    \cup {[error |-> e, text |-> Undefined] :
            e \in {"Request failed with status code 429", "timeout of 15000ms exceeded"}}

\* Variant: only the prefix is checked.
KeyStartsRight(apiKey) == StartsWith(apiKey, "AIza")

\* !(!apiKey.startsWith('AIza') || apiKey.length < 20)
KeyFormatValid(apiKey) == StartsWith(apiKey, "AIza") /\ Len(apiKey) >= MinKeyLength

\* Variant: the message of the last caught error, none when nothing was caught.
LastErrorMessage(lastError) == IF lastError = Null THEN Empty ELSE lastError

\* throw lastError || new Error('All Gemini models failed'), then error.message
FallbackError(lastError) ==
  IF lastError = Null THEN "All Gemini models failed" ELSE lastError

Fallback(goalText, error) ==
  ("feedback" :> GenerateFallbackFeedback(goalText)) @@ ("provider" :> "fallback")
    @@ ("error" :> error)

IdleFeedback ==
  [pc |-> "idle", goalText |-> Empty, apiKey |-> Empty, requests |-> <<>>,
   lastError |-> Null, thrown |-> Empty, result |-> EmptyDoc]

\* getSmartFeedback up to the first request. The context argument only
\* changes the prompt text and is left out.
GetSmartFeedback(goalText, apiKey) ==
  /\ feedback.pc = "idle"
  /\ feedback' =
       LET call == [IdleFeedback EXCEPT !.goalText = goalText, !.apiKey = apiKey]
       IN  IF ~Truthy(goalText)
           THEN [call EXCEPT !.pc = "thrown", !.thrown = "Goal text is required"]
           ELSE IF ~Truthy(apiKey)
           THEN [call EXCEPT !.pc = "returned",
                             !.result = Fallback(goalText, "No API key provided")]
           ELSE IF ~KeyFormatValid(apiKey)
           THEN [call EXCEPT !.pc = "returned",
                             !.result = Fallback(goalText, "Invalid API key format")]
           ELSE [call EXCEPT !.pc = "calling"]
  /\ UNCHANGED <<bugVars, featureVars, lifecycleVars, built, viewVars, reportVars>>

\* One pass of the loop: the request to the next model is answered; after the
\* last model without text the function falls through to the fallback.
ModelAnswers(outcome) ==
  /\ feedback.pc = "calling"
  /\ feedback' =
       LET model == Models[Len(feedback.requests) + 1]
           sent == Append(feedback.requests, [model |-> model, outcome |-> outcome])
           caught == IF outcome.error # Empty THEN outcome.error
                        ELSE feedback.lastError
       IN  IF outcome.error = Empty /\ Truthy(outcome.text)
           THEN [feedback EXCEPT
                   !.pc = "returned", !.requests = sent,
                   !.result = ("feedback" :> Trim(outcome.text))
                                @@ ("provider" :> "gemini")]
           ELSE IF Len(sent) < Len(Models)
           THEN [feedback EXCEPT !.requests = sent, !.lastError = caught]
           ELSE [feedback EXCEPT
                   !.pc = "returned", !.requests = sent, !.lastError = caught,
                   !.result = Fallback(feedback.goalText, FallbackError(caught))]
  /\ UNCHANGED <<bugVars, featureVars, lifecycleVars, built, viewVars, reportVars>>

\* The caller has its answer; the next call can start.
FeedbackSettled ==
  /\ feedback.pc \in {"returned", "thrown"}
  /\ feedback' = IdleFeedback
  /\ UNCHANGED <<bugVars, featureVars, lifecycleVars, built, viewVars, reportVars>>

(***************************************************************************)
(* Feature tracking                                                        *)
(* (FeatureTrackingService, DeploymentFeatureExtractor)                    *)
(***************************************************************************)
\* date.setDate(date.getDate() + 14)
ReleaseOffsetDays == 14

\* The upper-case letter of every lower-case letter.
UpperOf ==
  LET letter(i) == CharAt(LowerLetters, i)
      index(c) == CHOOSE i \in 1..Len(LowerLetters) : letter(i) = c
  IN  [c \in {letter(i) : i \in 1..Len(LowerLetters)} |-> CharAt(UpperLetters, index(c))]

UpperChar(c) == IF c \in DOMAIN UpperOf THEN UpperOf[c] ELSE c

\* s.charAt(0).toUpperCase() + s.slice(1)
Capitalize(s) == IF s = Empty THEN Empty ELSE UpperChar(CharAt(s, 1)) \o SubSeq(s, 2, Len(s))

\* s.substring(0, n)
Substring(s, n) == SubSeq(s, 1, IF Len(s) < n THEN Len(s) ELSE n)

\* Position of the first occurrence of part in s, 0 when there is none.
IndexOf(s, part) ==
  IF Includes(s, part)
  THEN CHOOSE i \in 1..Len(s) :
         /\ SubSeq(s, i, i + Len(part) - 1) = part
         /\ \A j \in 1..(i - 1) : SubSeq(s, j, j + Len(part) - 1) # part
  ELSE 0

From(s, i) == SubSeq(s, i, Len(s))

RECURSIVE Split(_, _)
\* s.split(separator), for a separator of one character
Split(s, separator) ==
  LET i == IndexOf(s, separator)
  IN  IF i = 0 THEN <<s>> ELSE <<SubSeq(s, 1, i - 1)>> \o Split(From(s, i + 1), separator)

\* s.replace(/^(feat|feature|add|new|implement|create):\s*/i, '')
StripPrefix(s) ==
  LET prefixes == {"feat:", "feature:", "add:", "new:", "implement:", "create:"}
      lower == ToLowerCase(Substring(s, Len("implement:")))
      found == {p \in prefixes : StartsWith(lower, p)}
  IN  IF found = {} THEN s
      ELSE TrimStart(From(s, Len(CHOOSE p \in found : TRUE) + 1))

RECURSIVE StripScopes(_)
\* s.replace(/\s*\([^)]*\)/g, '')
StripScopes(s) ==
  LET starts == {i \in 1..Len(s) :
                   LET rest == TrimStart(From(s, i))
                   IN  StartsWith(rest, "(") /\ Includes(rest, ")")}
  IN  IF starts = {} THEN s
      ELSE LET i == CHOOSE k \in starts : \A j \in starts : k <= j
               rest == TrimStart(From(s, i))
           IN  SubSeq(s, 1, i - 1) \o StripScopes(From(rest, IndexOf(rest, ")") + 1))

\* s.replace(/<word>\s*/i, ''): the first occurrence, any letter case.
StripWord(s, word) ==
  LET i == IndexOf(ToLowerCase(s), word)
  IN  IF i = 0 THEN s
      ELSE SubSeq(s, 1, i - 1) \o TrimStart(From(s, i + Len(word)))

\* s.replace(/coming soon\s*-\s*/i, '')
StripComingSoon(s) ==
  LET lower == ToLowerCase(s)
      starts == {i \in 1..Len(s) :
                   /\ StartsWith(From(lower, i), "coming soon")
                   /\ StartsWith(TrimStart(From(lower, i + Len("coming soon"))), "-")}
  IN  IF starts = {} THEN s
      ELSE LET i == CHOOSE k \in starts : \A j \in starts : k <= j
               afterWords == TrimStart(From(s, i + Len("coming soon")))
           IN  SubSeq(s, 1, i - 1) \o TrimStart(From(afterWords, 2))

\* FeatureTrackingService.extractFeatureTitle
ExtractFeatureTitle(message) ==
  Capitalize(Trim(Split(StripScopes(StripPrefix(message)), "\n")[1]))

\* FeatureTrackingService.extractFeatureDescription
ExtractFeatureDescription(message) ==
  LET lines == Split(message, "\n")
  IN  IF Len(lines) > 1 THEN Trim(JoinWith(Tail(lines), " "))
      ELSE ExtractFeatureTitle(message)

\* DeploymentFeatureExtractor.extractTitle
ExtractTitle(message) ==
  Capitalize(Trim(StripWord(StripWord(StripComingSoon(
    StripPrefix(Split(message, "\n")[1])), "wip:"), "todo:")))

\* DeploymentFeatureExtractor.extractDescription
ExtractDescription(message) ==
  LET lines == SelectSeq(Split(message, "\n"), LAMBDA line : Trim(line) # Empty)
  IN  IF Len(lines) > 1 THEN Trim(JoinWith(Tail(lines), " "))
      ELSE ExtractTitle(message)

\* FeatureTrackingService.determineFeatureStatus
DetermineFeatureStatus(message) ==
  LET lowerMessage == ToLowerCase(message)
  IN  IF Includes(lowerMessage, "coming soon") \/ Includes(lowerMessage, "placeholder")
      THEN "coming-soon"
      ELSE IF Includes(lowerMessage, "wip:") \/ Includes(lowerMessage, "in progress")
      THEN "in-development"
      ELSE IF Includes(lowerMessage, "todo:") \/ Includes(lowerMessage, "planned")
      THEN "planned"
      ELSE "released"

\* DeploymentFeatureExtractor.determineStatus
DetermineStatus(message) ==
  LET lower == ToLowerCase(message)
  IN  IF Includes(lower, "coming soon") \/ Includes(lower, "placeholder")
      THEN "coming-soon"
      ELSE IF Includes(lower, "wip:") \/ Includes(lower, "work in progress")
      THEN "in-development"
      ELSE IF Includes(lower, "todo:") \/ Includes(lower, "planned")
      THEN "planned"
      ELSE "released"

FeatureKeywords ==
  {"feature:", "feat:", "add:", "new:", "implement:", "create:", "coming soon",
   "wip:", "todo:", "placeholder"}

\* FEATURE_KEYWORDS.some(keyword => message.includes(keyword))
IsFeatureCommit(message) ==
  LET lower == ToLowerCase(message)
  IN  \E keyword \in FeatureKeywords : Includes(lower, keyword)

\* --- dates: new Date(text), setDate, toISOString().split('T')[0] ---
IsDigits(s) == \A i \in 1..Len(s) : Includes(Digits, CharAt(s, i))

DigitValue(c) == (CHOOSE i \in 1..Len(Digits) : CharAt(Digits, i) = c) - 1

RECURSIVE ParseNumber(_)
ParseNumber(s) ==
  IF s = Empty THEN 0
  ELSE 10 * ParseNumber(SubSeq(s, 1, Len(s) - 1)) + DigitValue(CharAt(s, Len(s)))

IsLeapYear(y) == y % 4 = 0 /\ (y % 100 # 0 \/ y % 400 = 0)

DaysInMonth(y, m) ==
  IF m = 2 THEN (IF IsLeapYear(y) THEN 29 ELSE 28)
  ELSE IF m \in {4, 6, 9, 11} THEN 30 ELSE 31

\* Whether new Date(text) is a valid date: "YYYY-MM-DD", alone or followed by
\* a time of day with the offset +0000.
IsDateText(text) ==
  /\ Len(text) >= 10
  /\ IsDigits(SubSeq(text, 1, 4)) /\ CharAt(text, 5) = "-"
  /\ IsDigits(SubSeq(text, 6, 7)) /\ CharAt(text, 8) = "-"
  /\ IsDigits(SubSeq(text, 9, 10))
  /\ Len(text) > 10 => CharAt(text, 11) = " "
  /\ ParseNumber(SubSeq(text, 6, 7)) \in 1..12
  /\ ParseNumber(SubSeq(text, 9, 10))
       \in 1..DaysInMonth(ParseNumber(SubSeq(text, 1, 4)), ParseNumber(SubSeq(text, 6, 7)))

ParseDate(text) ==
  [year  |-> ParseNumber(SubSeq(text, 1, 4)),
   month |-> ParseNumber(SubSeq(text, 6, 7)),
   day   |-> ParseNumber(SubSeq(text, 9, 10))]

RECURSIVE AddDays(_, _)
AddDays(date, days) ==
  IF date.day + days <= DaysInMonth(date.year, date.month)
  THEN [date EXCEPT !.day = @ + days]
  ELSE AddDays([year  |-> IF date.month = 12 THEN date.year + 1 ELSE date.year,
                month |-> IF date.month = 12 THEN 1 ELSE date.month + 1,
                day   |-> 1],
               days - (DaysInMonth(date.year, date.month) - date.day) - 1)

Pad2(n) == IF n < 10 THEN "0" \o ToString(n) ELSE ToString(n)

FormatDate(date) == ToString(date.year) \o "-" \o Pad2(date.month) \o "-" \o Pad2(date.day)

\* estimateReleaseDate, on a machine whose time zone is UTC; toISOString
\* throws for an invalid date.
EstimateReleaseDate(commitDate) == FormatDate(AddDays(ParseDate(commitDate), ReleaseOffsetDays))

\* --- commits ---
CommitMessages ==
  {"feat: House-based color theming\nAdded personalized colors for different houses",
   "feat: Coming soon - Goals & Reflections system\nStudent goal setting",
   "Add: placeholder page (ui) for analytics",
   "WIP: journey timeline",
   "todo: mentor matching\n\nplanned for the next term",
   "NEW: COMING SOON -analytics",
   "fix: typo in the footer",
   "docs: planned work"}

CommitDates == {"2025-10-04 14:15:00 +0000", "2025-12-25 09:00:00 +0000", Empty}

Commits ==
  {[hash |-> "b2c3d4e5f6g7", message |-> m, date |-> d, author |-> "Developer"] :
     m \in CommitMessages, d \in CommitDates}

NotParsed == [by |-> "none", threw |-> FALSE, features |-> <<>>]

\* parseCommitForFeatures(commit)
ServiceFeature(commit) ==
  ("id" :> ("feature-" \o Substring(commit.hash, 8)))
    @@ ("title" :> ExtractFeatureTitle(commit.message))
    @@ ("description" :> ExtractFeatureDescription(commit.message))
    @@ ("status" :> DetermineFeatureStatus(commit.message))
    @@ ("dateAdded" :> commit.date)
    @@ ("commitHash" :> commit.hash)

\* extractFeaturesFromCommit(commit)
ScriptFeature(commit) ==
  ("id" :> ("feature-" \o Substring(commit.hash, 8)))
    @@ ("title" :> ExtractTitle(commit.message))
    @@ ("description" :> ExtractDescription(commit.message))
    @@ ("status" :> DetermineStatus(commit.message))
    @@ ("dateAdded" :> Split(commit.date, " ")[1])
    @@ ("commitHash" :> commit.hash)
    @@ ("author" :> commit.author)

\* if (feature.status === 'coming-soon') feature.estimatedRelease = ...
ParseResult(by, message, feature) ==
  IF ~IsFeatureCommit(message) THEN [by |-> by, threw |-> FALSE, features |-> <<>>]
  ELSE IF feature["status"] # "coming-soon"
  THEN [by |-> by, threw |-> FALSE, features |-> <<feature>>]
  ELSE IF ~IsDateText(feature["dateAdded"])
  THEN [by |-> by, threw |-> TRUE, features |-> <<>>]
  ELSE [by |-> by, threw |-> FALSE,
        features |-> <<("estimatedRelease" :> EstimateReleaseDate(feature["dateAdded"]))
                         @@ feature>>]

ParseCommitForFeatures(commit) ==
  /\ parsed' = ParseResult("service", commit.message, ServiceFeature(commit))
  /\ UNCHANGED <<features, bugVars, feedback, lifecycleVars, built, viewVars,
                 reportVars>>

ExtractFeaturesFromCommit(commit) ==
  /\ parsed' = ParseResult("script", commit.message, ScriptFeature(commit))
  /\ UNCHANGED <<features, bugVars, feedback, lifecycleVars, built, viewVars,
                 reportVars>>

\* initializeMockData()
MockFeatures ==
  << ("id" :> "feature-goals-system") @@ ("title" :> "Goals & Reflections System")
       @@ ("description" :> "Complete goal setting and daily reflection system with progress tracking")
       @@ ("status" :> "coming-soon") @@ ("dateAdded" :> "2025-10-01")
       @@ ("estimatedRelease" :> "2025-10-15"),
     ("id" :> "feature-journey-timeline") @@ ("title" :> "Learning Journey Timeline")
       @@ ("description" :> "Visual timeline showing student progress through curriculum phases")
       @@ ("status" :> "coming-soon") @@ ("dateAdded" :> "2025-10-02")
       @@ ("estimatedRelease" :> "2025-10-20"),
     ("id" :> "feature-house-colors") @@ ("title" :> "House-based Color Theming")
       @@ ("description" :> "Personalized color themes based on student house assignment")
       @@ ("status" :> "released") @@ ("dateAdded" :> "2025-10-05"),
     ("id" :> "feature-whats-new") @@ ("title" :> "What's New Feature Announcements")
       @@ ("description" :> "Modal system for announcing new features and updates")
       @@ ("status" :> "released") @@ ("dateAdded" :> "2025-10-05") >>

FeatureIds == {MockFeatures[i]["id"] : i \in 1..Len(MockFeatures)} \cup {"feature-b2c3d4e5"}

\* Variant: only the status is changed.
ReleasedKeepingEstimate(feature) == ("status" :> "released") @@ feature

\* feature.status = 'released'; feature.estimatedRelease = undefined
Released(feature) ==
  ("status" :> "released") @@ ("estimatedRelease" :> Undefined) @@ feature

\* markFeatureAsReleased(featureId): the first feature with this id, if any.
MarkFeatureAsReleased(featureId) ==
  /\ features' =
       LET found == {i \in 1..Len(features) : features[i]["id"] = featureId}
       IN  IF found = {} THEN features
           ELSE LET first == CHOOSE i \in found : \A j \in found : i <= j
                IN  [features EXCEPT ![first] = Released(@)]
  /\ UNCHANGED <<parsed, bugVars, feedback, lifecycleVars, built, viewVars, reportVars>>

(***************************************************************************)
(* Specifications                                                          *)
(***************************************************************************)
LifecycleAtRest ==
  /\ requests = InitRequests
  /\ users = InitUsers
  /\ calls = [p \in Procs |-> IdleCall]
  /\ started = 0

ViewAtRest ==
  /\ successMessage = Empty
  /\ errorMessage = Empty
  /\ processing = Null
  /\ successTimer = NoTimer
  /\ errorTimer = NoTimer
  /\ successAge = 0
  /\ errorAge = 0
  /\ handlers = [h \in Handlers |-> IdleHandler]

ReportAtRest ==
  /\ reporter = "goals"
  /\ roster = <<>>
  /\ submissions = {}
  /\ clock = [now |-> IstTime(1, 9, 20, 0), localOffset |-> 0]
  /\ env = GoodEnvironment
  /\ run = IdleRun

ServicesAtRest ==
  /\ bugReports = <<>>
  /\ modal = OpenModal
  /\ panel = MountedPanel
  /\ countResult = NoCount
  /\ feedback = IdleFeedback
  /\ features = MockFeatures
  /\ parsed = NotParsed

\* Mentor request lifecycle.
Init ==
  /\ LifecycleAtRest
  /\ built = NoBuild
  /\ ViewAtRest /\ selectedUser = TRUE
  /\ ReportAtRest
  /\ ServicesAtRest

Next ==
  \/ \E p \in Procs, a \in CreateInputs :
       RequestMentorChange(p, a[1], a[2], a[3], a[4])
  \/ \E p \in Procs, r \in 1..(Len(requests) + 1), n \in NotesInputs :
       ApproveMentorRequest(p, r, AdminOf(p), n)
  \/ \E p \in Procs, r \in 1..(Len(requests) + 1), n \in NotesInputs :
       RejectMentorRequest(p, r, AdminOf(p), n)
  \/ \E p \in Procs : CreateRequestDocument(p)
  \/ \E p \in Procs : UpdateRequestDocument(p)
  \/ \E p \in Procs : UpdateStudentMentor(p)
  \/ \E p \in Procs : UpdateStudentPending(p)
  \/ \E p \in Procs : StoreFailure(p)
  \/ \E p \in Procs : Return(p)

Spec == Init /\ [][Next]_vars

\* Payload construction.
PayloadNext ==
  \/ \E s \in Students, m \in Mentors, cm \in CurrentMentorValues, r \in ReasonValues :
       BuildRequestData(s, m, cm, r)
  \/ \E op \in {"approve", "reject"}, a \in Admins, n \in NotesValues :
       BuildReviewData(op, a, n)
  \/ \E op \in {"approve", "reject", "create"}, r \in RequestIds :
       BuildStudentUpdate(op, r)

PayloadSpec == Init /\ [][PayloadNext]_vars

\* Approval view.
ViewInit ==
  /\ LifecycleAtRest
  /\ built = NoBuild
  /\ ViewAtRest /\ selectedUser \in BOOLEAN
  /\ ReportAtRest
  /\ ServicesAtRest

ViewNext ==
  \/ \E h \in Handlers, g \in Goals, st \in ReviewStatuses :
       HandleGoalApproval(h, g, st)
  \/ \E h \in Handlers, r \in Reflections, st \in ReviewStatuses :
       HandleReflectionApproval(h, r, st)
  \/ \E h \in Handlers : ReviewResolves(h)
  \/ \E h \in Handlers, m \in ErrorMessages : ReviewRejects(h, m)
  \/ \E h \in Handlers : RefreshResolves(h)
  \/ \E h \in Handlers, m \in ErrorMessages : RefreshRejects(h, m)
  \/ SuccessTimerFires
  \/ ErrorTimerFires
  \/ Tick

ViewSpec == ViewInit /\ [][ViewNext]_vars

\* Attendance reporters: one run of either script on any store contents.
ReportInit ==
  /\ LifecycleAtRest
  /\ built = NoBuild
  /\ ViewAtRest /\ selectedUser = TRUE
  /\ reporter \in Reporters
  /\ roster \in Rosters
  /\ submissions \in SubmissionSets
  /\ clock \in [now : RunTimes, localOffset : LocalOffsets]
  /\ env \in Environments
  /\ env # GoodEnvironment => Cardinality(submissions) <= 1
  /\ run = IdleRun
  /\ ServicesAtRest

ReportNext ==
  \/ ValidateEnvironment
  \/ MainStarts
  \/ StudentsFetched
  \/ SubmissionsFetched
  \/ FetchFails
  \/ ComputeGoalCounts
  \/ ComputeReflectionCounts
  \/ FormatMessage
  \/ \E response \in Responses : ReportPosted(response)
  \/ \E response \in Responses : ErrorPosted(response)

ReportSpec == ReportInit /\ [][ReportNext]_vars

\* Bug reports: the modal, the admin panel and the service.
BugNext ==
  \/ \E input \in SubmitInputs : SubmitReport(input)
  \/ \E input \in SubmitInputs : HandleSubmit(input)
  \/ SubmitReportResolves
  \/ SubmitReportRejects
  \/ ModalTick
  \/ CloseTimerFires
  \/ UserClosesModal
  \/ LoadReportsResolves
  \/ LoadReportsRejects
  \/ \E h \in PanelHandlers, id \in 1..Len(bugReports) : HandleReviewed(h, id)
  \/ \E h \in PanelHandlers : MarkAsReviewedResolves(h)
  \/ \E h \in PanelHandlers : MarkAsReviewedRejects(h)
  \/ \E fetchFails \in BOOLEAN : GetUnreviewedCount(fetchFails)
  \/ CountSettled

BugSpec == Init /\ [][BugNext]_vars

\* Smart feedback.
FeedbackNext ==
  \/ \E goalText \in GoalTexts, apiKey \in ApiKeys : GetSmartFeedback(goalText, apiKey)
  \/ \E outcome \in ModelOutcomes : ModelAnswers(outcome)
  \/ FeedbackSettled

FeedbackSpec == Init /\ [][FeedbackNext]_vars

\* Feature tracking.
FeatureNext ==
  \/ \E commit \in Commits : ParseCommitForFeatures(commit)
  \/ \E commit \in Commits : ExtractFeaturesFromCommit(commit)
  \/ \E featureId \in FeatureIds : MarkFeatureAsReleased(featureId)

FeatureSpec == Init /\ [][FeatureNext]_vars

(***************************************************************************)
(* Properties of the mentor request lifecycle                              *)
(***************************************************************************)
StatusOf(r) == requests[r].status
StudentOf(r) == requests[r].student_id

\* A review call (approve or reject) of caller p completes in this step.
Completes(p, op) ==
  /\ calls[p].op = op
  /\ calls[p].pc = "writeStudent"
  /\ calls'[p].pc = "done"

\* C1: under any interleaving of approve and reject calls a request's status
\* changes at most once, pending -> approved or pending -> rejected: a status
\* that is approved or rejected is never written again with another value.
C1_StatusChangesAtMostOnce ==
  [][\A r \in RequestIds :
       StatusOf(r) \in {"approved", "rejected"} =>
         requests'[r].status = StatusOf(r)]_vars

\* C2: a review call that finds its request already approved or rejected fails
\* with InvalidStateError and issues no write to the request document or to
\* the student document.
C2_TerminalReviewRefused ==
  \A p \in Procs :
    (calls[p].op \in {"approve", "reject"}
       /\ calls[p].readStatus \in {"approved", "rejected"}) =>
      /\ calls[p].pc = "failed"
      /\ calls[p].err = "InvalidStateError"
      /\ calls[p].requestWrites = 0
      /\ calls[p].userWrites = 0

C2_Witness ==
  \E p \in Procs :
    /\ calls[p].op \in {"approve", "reject"}
    /\ calls[p].readStatus \in {"approved", "rejected"}
    /\ calls[p].pc = "failed"

\* C3: when an approve(requestId, adminId, notes) call completes successfully,
\* the request has status approved with reviewed_by = adminId, the student's
\* mentor_id equals the request's requested_mentor_id and the student's
\* pending_mentor_id is ''.
C3_ApprovePostcondition ==
  [][\A p \in Procs :
       Completes(p, "approve") =>
         LET r == calls[p].requestId
             s == users'[StudentOf(r)]
         IN  /\ requests'[r].status = "approved"
             /\ Get(requests'[r], "reviewed_by") = calls[p].adminId
             /\ Get(s, "mentor_id") = requests'[r].requested_mentor_id
             /\ Get(s, "pending_mentor_id") = Empty]_vars

\* C4: when a reject(requestId, adminId, notes) call completes successfully,
\* the request has status rejected, the student's pending_mentor_id is '' and
\* the student's mentor_id has the value it had before the call.
C4_RejectPostcondition ==
  [][\A p \in Procs :
       Completes(p, "reject") =>
         LET r == calls[p].requestId
             s == users'[StudentOf(r)]
         IN  /\ requests'[r].status = "rejected"
             /\ Get(s, "pending_mentor_id") = Empty
             /\ Get(s, "mentor_id") = calls[p].mentorBefore]_vars

\* C5: in createRequest, approve and reject the student document is written
\* only after the call's request-document write has succeeded; a call whose
\* request-document write failed never writes the student document and ends
\* with the error surfaced to its caller.
C5_StudentWriteAfterRequestWrite ==
  \A p \in Procs :
    /\ calls[p].userWrites > 0 => calls[p].requestWrites > 0
    /\ calls[p].pc \in {"writeStudent", "done"} => calls[p].requestWrites = 1
    /\ (calls[p].pc = "failed" /\ calls[p].requestWrites = 0) =>
         (calls[p].userWrites = 0 /\ calls[p].err # Empty)

C5_Witness ==
  \E p, q \in Procs :
    /\ calls[p].pc = "failed" /\ calls[p].err = "StoreError"
    /\ calls[p].requestWrites = 0 /\ calls[p].userWrites = 0
    /\ calls[q].pc = "done" /\ calls[q].requestWrites = 1 /\ calls[q].userWrites = 1

\* A value the caller actually supplied: neither absent nor empty.
Supplied(v) == v # Undefined /\ v # Null /\ v # Empty

OptionalKey(payload, key, value) ==
  /\ key \in DOMAIN payload <=> Supplied(value)
  /\ key \in DOMAIN payload => payload[key] = value

\* C6: in every write payload built by createRequest, approve and reject, each
\* optional field (current_mentor_id, current_mentor_name, reason, admin_notes)
\* is a key exactly when a non-empty value was supplied for it, and then
\* carries that value; no field value is undefined or null, and the store
\* accepts the payload.
C6_OptionalFieldsOmitted ==
  /\ built.kind = "requestData" =>
       /\ OptionalKey(built.payload, "current_mentor_id", built.currentMentorId)
       /\ OptionalKey(built.payload, "current_mentor_name", built.currentMentorName)
       /\ OptionalKey(built.payload, "reason", built.reason)
  /\ built.kind \in {"approve", "reject"} =>
       OptionalKey(built.payload, "admin_notes", built.adminNotes)
  /\ built.kind = "student" =>
       {"current_mentor_id", "current_mentor_name", "reason", "admin_notes"}
          \cap DOMAIN built.payload = {}
  /\ built.kind # "none" =>
       /\ \A k \in DOMAIN built.payload : built.payload[k] \notin {Undefined, Null}
       /\ built.accepted

C6_Witness ==
  /\ built.kind = "requestData"
  /\ built.currentMentorId = Ghost /\ built.reason = Empty
  /\ DOMAIN built.payload =
       {"student_id", "student_name", "student_email", "requested_mentor_id",
        "requested_mentor_name", "status", "created_at", "current_mentor_id"}

\* The pending requests of student s.
PendingOf(s) == {r \in RequestIds : StudentOf(r) = s /\ StatusOf(r) = "pending"}

\* C7: after any sequence of createRequest, approve and reject calls every
\* student has at most one request whose status is pending.
C7_AtMostOnePending ==
  \A s \in Students : Cardinality(PendingOf(s)) <= 1

\* C8: when a createRequest(studentId, requestedMentorId, ...) call completes
\* successfully, the one request document it created exists with status
\* pending and the given studentId and requestedMentorId, the student's
\* pending_mentor_id equals requestedMentorId and the student's mentor_id is
\* the one it had before the call.
C8_CreatePostcondition ==
  [][\A p \in Procs :
       Completes(p, "create") =>
         LET r == calls[p].requestId
             s == users'[calls[p].studentId]
         IN  /\ calls[p].requestWrites = 1
             /\ r \in 1..Len(requests')
             /\ requests'[r].status = "pending"
             /\ requests'[r].student_id = calls[p].studentId
             /\ requests'[r].requested_mentor_id = calls[p].requestedMentorId
             /\ Get(s, "pending_mentor_id") = calls[p].requestedMentorId
             /\ Get(s, "mentor_id") = calls[p].mentorBefore]_vars

\* C9: createRequest with an empty studentId or requestedMentorId, or with
\* one that references no existing user, fails with ValidationError, creates
\* no request document and updates no student document.
C9_InvalidIdsRefused ==
  \A p \in Procs :
    (calls[p].op = "create"
       /\ \E id \in {calls[p].studentId, calls[p].requestedMentorId} :
            id = Empty \/ id \notin UserIds) =>
      /\ calls[p].pc = "failed"
      /\ calls[p].err = "ValidationError"
      /\ calls[p].requestWrites = 0
      /\ calls[p].userWrites = 0

C9_Witness ==
  \E p, q \in Procs :
    /\ calls[p].op = "create" /\ calls[p].studentId = Ghost
    /\ calls[p].err = "ValidationError"
    /\ calls[q].op = "create" /\ calls[q].requestedMentorId = Empty
    /\ calls[q].err = "ValidationError"
    /\ requests = InitRequests /\ users = InitUsers

\* C10: in every reachable state of the approval view, under any interleaving
\* of goal and reflection handlers, their store calls, the data refresh and
\* the two auto-dismiss timers, at most one of successMessage and
\* errorMessage is non-empty.
C10_OneBannerAtATime ==
  ~(successMessage # Empty /\ errorMessage # Empty)

(***************************************************************************)
(* Properties of the approval view                                         *)
(***************************************************************************)
InFlight(h) == handlers[h].pc # "idle"

\* C11: while an approve/review call for a target is in flight, processing
\* equals that target, so no second call for the same target is in flight,
\* also when calls for other targets start or complete in the meantime.
C11_ProcessingGuardsInFlight ==
  \A h \in Handlers :
    InFlight(h) =>
      /\ processing = handlers[h].target
      /\ \A k \in Handlers \ {h} :
           InFlight(k) => handlers[k].target # handlers[h].target

\* C12: a displayed success message is never older than 3 seconds and a
\* displayed error message never older than 5: its auto-clear timer is
\* pending and fires no later than 3 (5) seconds after the message was set.
C12_AutoDismissDeadline ==
  /\ successMessage # Empty =>
       /\ Armed(successTimer)
       /\ successAge + successTimer[1] <= SuccessDelay
  /\ errorMessage # Empty =>
       /\ Armed(errorTimer)
       /\ errorAge + errorTimer[1] <= ErrorDelay

C12_Witness ==
  /\ errorMessage # Empty
  /\ errorAge = ErrorDelay
  /\ Due(errorTimer)

\* C13: every completion that sets a banner message restarts the auto-clear:
\* the success timer never clears a message set less than 3 seconds ago and
\* the error timer never one set less than 5 seconds ago, also when a message
\* of the same kind and text was already displayed.
C13_SetRestartsTimer ==
  [][/\ SuccessTimerFires => successAge >= SuccessDelay
     /\ ErrorTimerFires => errorAge >= ErrorDelay]_vars

\* C14: every approve/review action ends with processing cleared, whether the
\* review call succeeded, the review call failed or the refresh failed, and
\* whenever no action is in flight processing is null.
C14_ProcessingCleared ==
  /\ []((\A h \in Handlers : ~InFlight(h)) => processing = Null)
  /\ [][\A h \in Handlers :
          (InFlight(h) /\ handlers'[h].pc = "idle") => processing' = Null]_vars

C14_Witness ==
  /\ \A h \in Handlers : ~InFlight(h)
  /\ processing = Null
  /\ errorMessage # Empty
  /\ successMessage # Empty

\* C15: the error banner is set only by an action whose review call failed:
\* a step that sets errorMessage to a new non-empty text is the failure of a
\* review call, never a step of an action whose review call succeeded.
C15_ErrorOnlyWhenReviewFailed ==
  [][(errorMessage' # Empty /\ errorMessage' # errorMessage) =>
       \E h \in Handlers : handlers[h].pc = "review" /\ handlers'[h].pc = "idle"]_vars

(***************************************************************************)
(* Properties of the attendance reporters                                  *)
(***************************************************************************)
\* The run has passed the named step.
Did(name) == \E i \in 1..Len(run.steps) : run.steps[i] = name

IdsOf(students) == {students[i].id : i \in 1..Len(students)}

\* Every student is counted in exactly one of present and absent.
AttendancePartition ==
  /\ run.totalCount = Cardinality(DOMAIN roster)
  /\ run.presentCount + run.absentCount = run.totalCount
  /\ IdsOf(run.presentStudents) \cap IdsOf(run.absentStudents) = {}
  /\ IdsOf(run.presentStudents) \cup IdsOf(run.absentStudents) = DOMAIN roster
  /\ run.presentCount = Cardinality(IdsOf(run.presentStudents))
  /\ run.absentCount = Cardinality(IdsOf(run.absentStudents))
  /\ IdsOf(run.presentStudents) = DOMAIN roster \cap StudentIdsOf(run.matched)

\* q lists the names of the students, one entry each, in ascending order.
IsAscendingListOf(q, students) ==
  /\ Len(q) = Len(students)
  /\ \E f \in Permutations(1..Len(students)) :
       \A i \in 1..Len(students) : q[i] = students[f[i]].name
  /\ \A i, j \in 1..Len(q) : i < j => Rank(q[i]) <= Rank(q[j])

AscendingLists(students) ==
  {q \in [1..Len(students) -> {NameOrder[i] : i \in 1..Len(NameOrder)}] :
     IsAscendingListOf(q, students)}

\* C16 as stated: in the goal report presentCount + absentCount equals the
\* number of students, every student is counted in exactly one of the two,
\* and the absent-students field is exactly the names of the absent students
\* in ascending order, comma-joined.
C16_AbsentListComplete ==
  (reporter = "goals" /\ Did("format-message")) =>
    /\ AttendancePartition
    /\ run.absentCount > 0 =>
         \E q \in AscendingLists(run.absentStudents) :
           run.extraField.value = Join(q)

\* C16: in the goal report presentCount + absentCount equals the number of
\* students, every student is counted in exactly one of the two, and the
\* absent-students field is the ascending, comma-joined list of the absent
\* students' names when that list has at most 1000 characters, and its first
\* 997 characters followed by '...' when it is longer.
C16_AbsentListWithinBudget ==
  (reporter = "goals" /\ Did("format-message")) =>
    /\ AttendancePartition
    /\ run.absentCount > 0 =>
         \E q \in AscendingLists(run.absentStudents) :
           run.extraField.value =
             IF Len(Join(q)) <= FieldLimit THEN Join(q)
             ELSE SubSeq(Join(q), 1, FieldKept) \o "..."

C16_Witness ==
  /\ reporter = "goals" /\ Did("format-message")
  /\ run.absentCount = 2 /\ run.presentCount = 0
  /\ Len(run.absentNames) > FieldLimit
  /\ Len(run.extraField.value) = FieldLimit

\* C17: in the reflection report the Present count is the number of students
\* with at least one reflection in range and the Absent count the number of
\* students with none, so 0 <= presentCount <= totalStudents, absentCount >= 0
\* and presentCount + absentCount = totalStudents.
C17_ReflectionCounts ==
  (reporter = "reflections" /\ Did("compute-counts")) =>
    LET withReflection == DOMAIN roster \cap StudentIdsOf(run.matched)
    IN  /\ run.totalCount = Cardinality(DOMAIN roster)
        /\ run.presentCount = Cardinality(withReflection)
        /\ run.absentCount = Cardinality(DOMAIN roster \ withReflection)
        /\ 0 <= run.presentCount /\ run.presentCount <= run.totalCount
        /\ run.absentCount >= 0
        /\ run.presentCount + run.absentCount = run.totalCount

\* Start of the calendar day of `now` in UTC+5:30, and of the next one.
TodayStart(now) == ((now + IstOffset) \div SecondsPerDay) * SecondsPerDay - IstOffset
TodayEnd(now) == TodayStart(now) + SecondsPerDay

\* C18: in both reporters a submission is counted for today exactly when its
\* created_at lies in [todayStart, todayEnd), the current calendar day in
\* UTC+5:30, for every run time and every submission time.
C18_TodayIsIstDay ==
  Did("fetch-submissions") =>
    run.matched = {d \in submissions : /\ TodayStart(clock.now) <= d.created_at
                                       /\ d.created_at < TodayEnd(clock.now)}

Delivered(post) ==
  post.response.kind = "end" /\ post.response.statusCode \in {200, 204}

ErrorPosts == {i \in 1..Len(run.posts) : run.posts[i].kind = "error"}

\* C19: in both reporters a failure in fetching or posting the report (a
\* webhook response other than 200/204 included) leads to exactly one
\* secondary post attempt describing the failure and then to exit status 1,
\* also when that secondary post fails.
C19_FailureReportedOnce ==
  /\ \A i \in 1..Len(run.posts) :
       (run.posts[i].kind = "report" /\ ~Delivered(run.posts[i])) => run.error # Empty
  /\ run.error # Empty =>
       /\ run.pc \in {"errorPost", "exited"}
       /\ run.pc = "errorPost" => (ErrorPosts = {} /\ run.exitCode = NoExit)
       /\ run.pc = "exited" =>
            /\ run.exitCode = Exit(1)
            /\ ErrorPosts = {Len(run.posts)}

C19_Witness ==
  /\ run.pc = "exited" /\ run.exitCode = Exit(1)
  /\ Len(run.posts) = 2
  /\ run.posts[1].kind = "report" /\ run.posts[1].response.statusCode = 500
  /\ run.posts[2].kind = "error" /\ ~Delivered(run.posts[2])

\* C20: a reporter run exits with status 0 only after fetch-students,
\* fetch-submissions, compute-counts, format-message and a successful
\* post-webhook, in this order, and has then posted exactly one report.
C20_ExitZeroAfterReport ==
  run.exitCode = Exit(0) =>
    /\ run.steps = <<"fetch-students", "fetch-submissions", "compute-counts",
                     "format-message", "post-webhook">>
    /\ Len(run.posts) = 1
    /\ run.posts[1].kind = "report" /\ Delivered(run.posts[1])

\* C21: when the service-account credential or the webhook URL is missing
\* from the environment, or the credential does not parse, the reporter ends
\* with exit status 1 without any store read and without any webhook post,
\* the failure post included.
C21_BadEnvironmentIsFatal ==
  (\/ env.FIREBASE_SERVICE_ACCOUNT \in {Undefined, Empty, "not json"}
   \/ env.DISCORD_WEBHOOK_URL \in {Undefined, Empty}) =>
    /\ run.pc \in {"startup", "exited"}
    /\ run.pc = "exited" => run.exitCode = Exit(1)
    /\ run.reads = 0
    /\ run.posts = <<>>

C21_Witness ==
  /\ env.FIREBASE_SERVICE_ACCOUNT = "{service account}"
  /\ env.DISCORD_WEBHOOK_URL = Undefined
  /\ DOMAIN roster # {}
  /\ run.pc = "exited" /\ run.exitCode = Exit(1)

\* The positions of the embed fields with the given name.
FieldsNamed(name) == {i \in 1..Len(run.fields) : run.fields[i].name = name}

\* C22: the goal report has exactly one of the two extra fields: the Perfect
\* Attendance field when absentCount = 0 and the absent-students field when
\* absentCount > 0, never both and never neither.
C22_OneExtraField ==
  (reporter = "goals" /\ Did("format-message")) =>
    /\ Cardinality(FieldsNamed("Perfect Attendance!")) =
         (IF run.absentCount = 0 THEN 1 ELSE 0)
    /\ Cardinality(FieldsNamed("Absent Students")) =
         (IF run.absentCount > 0 THEN 1 ELSE 0)

C22_Witness ==
  /\ reporter = "goals" /\ Did("format-message")
  /\ run.absentCount = 0 /\ run.presentCount = 2
  /\ FieldsNamed("Perfect Attendance!") = {Len(run.fields)}

\* C23: the value of the goal report's absent-students field never exceeds
\* 1000 characters: a sorted, comma-joined name list longer than 1000
\* characters is cut to its first 997 characters followed by '...', a list of
\* at most 1000 characters is posted unchanged.
C23_AbsentFieldBudget ==
  (reporter = "goals" /\ Did("format-message") /\ run.absentCount > 0) =>
    LET value == run.extraField.value
    IN  /\ Len(value) <= FieldLimit
        /\ Len(run.absentNames) > FieldLimit =>
             value = SubSeq(run.absentNames, 1, FieldKept) \o "..."
        /\ Len(run.absentNames) <= FieldLimit => value = run.absentNames

C23_Witness ==
  /\ reporter = "goals" /\ Did("format-message")
  /\ Len(run.absentNames) = LongNameLength + 2 + Len(HalfFieldName)
  /\ run.extraField.value = SubSeq(run.absentNames, 1, FieldKept) \o "..."

(***************************************************************************)
(* Pending pointer of the mentor request lifecycle                         *)
(***************************************************************************)
\* C26: whenever no createRequest, approve or reject call is between its two
\* writes, a student's pending_mentor_id is non-empty exactly when the
\* student has a pending request, and then equals that request's
\* requested_mentor_id.
C26_PendingPointerConsistent ==
  (\A p \in Procs : calls[p].pc # "writeStudent") =>
    \A s \in Students :
      LET pending == Get(users[s], "pending_mentor_id")
      IN  /\ Truthy(pending) <=> PendingOf(s) # {}
          /\ \A r \in PendingOf(s) : requests[r].requested_mentor_id = pending

(***************************************************************************)
(* Claims about the bug reports                                            *)
(***************************************************************************)
\* The stored reports nobody has marked as reviewed.
StoredUnreviewed == {i \in 1..Len(bugReports) : ~bugReports[i].reviewed}

Counted == countResult = NoCount /\ countResult' # NoCount

SubmitCompletes == modal.pc = "submitting" /\ modal'.pc = "idle"

\* C25: after a successful submitReport the modal shows the thank-you state
\* and the scheduled onClose runs once, 2 seconds later; after a failed
\* submitReport no onClose is scheduled, the error text is shown and
\* submitting is false again, so the form can be resubmitted.
C25_CloseAfterSuccessOnly ==
  /\ [](/\ modal.timerCloses <= 1
        /\ modal.submitted =>
             \/ Armed(modal.closeTimer)
                  /\ modal.thanksAge + modal.closeTimer[1] = CloseDelay
             \/ modal.timerCloses = 1
        /\ ~modal.submitted => ~Armed(modal.closeTimer) /\ modal.timerCloses = 0
        /\ (modal.open /\ modal.error # Empty) =>
             ENABLED (\E input \in SubmitInputs : HandleSubmit(input)))
  /\ [][/\ modal'.timerCloses # modal.timerCloses =>
             modal.submitted /\ modal.thanksAge = CloseDelay
        /\ (SubmitCompletes /\ bugReports' # bugReports) =>
             /\ modal'.submitted /\ ~modal'.submitting
             /\ modal'.closeTimer = <<CloseDelay>>
        /\ (SubmitCompletes /\ bugReports' = bugReports) =>
             /\ ~modal'.submitted /\ ~modal'.submitting
             /\ modal'.error = SubmitErrorText
             /\ modal'.closeTimer = NoTimer]_vars

C25_Witness ==
  /\ modal.submitted
  /\ modal.timerCloses = 1
  /\ modal.thanksAge = CloseDelay
  /\ modal.userCloses = 0

\* C27: once every started handleReviewed call has completed, the displayed
\* list marks a report as reviewed exactly when the store does.
C27_DisplayedMatchesStore ==
  (/\ ~panel.loading
   /\ \A h \in PanelHandlers : panel.calls[h].pc = "idle") =>
    \A i \in 1..Len(panel.reports) :
      panel.reports[i].reviewed = bugReports[panel.reports[i].id].reviewed

(***************************************************************************)
(* Claims about the smart feedback                                         *)
(***************************************************************************)
\* The request whose response carried a non-empty text.
HasText(i) == feedback.requests[i].outcome.text \notin {Undefined, Empty}

GotText == \E i \in 1..Len(feedback.requests) : HasText(i)

\* C28: getSmartFeedback raises only when goalText is empty; otherwise it
\* returns provider 'gemini' exactly when some model call returned non-empty
\* text, and else provider 'fallback' with the locally generated feedback and
\* a non-empty error field.
C28_ProviderReflectsModelText ==
  /\ feedback.pc = "thrown" => feedback.goalText \in {Undefined, Empty}
  /\ (feedback.pc \in {"calling", "returned"}) => feedback.goalText \notin {Undefined, Empty}
  /\ feedback.pc = "returned" =>
       /\ feedback.result["provider"] = "gemini" <=> GotText
       /\ ~GotText =>
            /\ feedback.result["provider"] = "fallback"
            /\ feedback.result["feedback"] = GenerateFallbackFeedback(feedback.goalText)
            /\ Get(feedback.result, "error") \notin {Undefined, Null, Empty}

C28_Witness ==
  /\ feedback.pc = "returned"
  /\ Len(feedback.requests) = Len(Models)
  /\ feedback.lastError = Null
  /\ feedback.result["provider"] = "fallback"
  /\ feedback.result["error"] = "All Gemini models failed"

KeyRejected ==
  \/ feedback.apiKey \in {Undefined, Empty}
  \/ ~StartsWith(feedback.apiKey, "AIza")
  \/ Len(feedback.apiKey) < 20

\* C29: no request is sent when the API key is empty, does not start with
\* 'AIza' or is shorter than 20 characters; otherwise the models are tried in
\* the order gemini-2.5-flash, gemini-2.0-flash, gemini-pro-latest,
\* gemini-flash-latest, the next one only after the previous request failed or
\* returned no text, none after the first that returned text, at most four.
C29_ModelsTriedInOrder ==
  LET order == <<"gemini-2.5-flash", "gemini-2.0-flash", "gemini-pro-latest",
                 "gemini-flash-latest">>
      sent == Len(feedback.requests)
  IN  /\ KeyRejected => sent = 0
      /\ sent <= 4
      /\ \A i \in 1..sent : feedback.requests[i].model = order[i]
      /\ \A i \in 1..sent : HasText(i) => i = sent /\ feedback.pc = "returned"
      /\ (feedback.pc = "returned" /\ ~KeyRejected) => GotText \/ sent = 4

C29_Witness ==
  /\ feedback.pc = "returned"
  /\ Len(feedback.requests) = 3
  /\ feedback.requests[1].outcome.error # Empty
  /\ feedback.requests[2].outcome.text = Empty
  /\ HasText(3)
  /\ feedback.result["provider"] = "gemini"

(***************************************************************************)
(* Claims about the feature tracking                                       *)
(***************************************************************************)
\* The records held by the service and those the last parse produced.
FeatureRecords ==
  {features[i] : i \in 1..Len(features)}
    \cup {parsed.features[i] : i \in 1..Len(parsed.features)}

\* C30: every feature record produced by parsing a commit or held by the
\* service has an estimatedRelease value exactly when its status is
\* 'coming-soon', for the initial data and after any markFeatureAsReleased.
C30_EstimateIffComingSoon ==
  \A feature \in FeatureRecords :
    Get(feature, "estimatedRelease") # Undefined <=> feature["status"] = "coming-soon"

C30_Witness ==
  /\ features[1]["status"] = "released"
  /\ "estimatedRelease" \in DOMAIN features[1]
  /\ features[2]["status"] = "coming-soon"
  /\ parsed.by = "service"
  /\ Len(parsed.features) = 1
  /\ parsed.features[1]["status"] = "coming-soon"
  /\ parsed.features[1]["estimatedRelease"] = "2026-01-08"

====
